---- MODULE Spec2Model ----
(***************************************************************************)
(* A model of the webarchive reader: the shared reader (source adapter,    *)
(* line and header-block scanning, field parsing, continuation merging),   *)
(* the WARC and ARC parsers and the multi-format opener.                   *)
(*                                                                         *)
(* A byte slice is a sequence of one-character strings.  Offsets and       *)
(* lengths are Go's: 0-based, half-open.  Two readers are driven in lock   *)
(* step over the same container bytes: rd["stream"] is opened over a plain *)
(* io.Reader, rd["slice"] over a source with the Slice method.             *)
(***************************************************************************)
EXTENDS Integers, Sequences, FiniteSets, TLC

\* ------------------------------------------------------------------ bytes

\* []byte(s): the bytes of a string literal
B(s) == [i \in 1..Len(s) |-> SubSeq(s, i, i)]

\* buf[a:b]
Sl(buf, a, b) == SubSeq(buf, a + 1, b)

\* buf[a:]
From(buf, a) == SubSeq(buf, a + 1, Len(buf))

\* F of the value v, v being worked out once
With(v, F(_)) == F(v)

Min(a, b) == IF a < b THEN a ELSE b

Max(a, b) == IF a > b THEN a ELSE b

RECURSIVE IndexFrom(_, _, _)
\* the 0-based index of the first c in buf at or after 0-based index k, or -1
IndexFrom(buf, c, k) ==
    IF k >= Len(buf) THEN -1
    ELSE IF buf[k + 1] = c THEN k
    ELSE IndexFrom(buf, c, k + 1)

\* bytes.IndexByte(buf, c)
IndexByte(buf, c) == IndexFrom(buf, c, 0)

\* the white space of bytes.TrimSpace (ASCII)
IsSpace(c) == c \in {" ", "\t", "\n", "\r", "\f"}

RECURSIVE TrimLeft(_, _)
TrimLeft(buf, k) ==
    IF k < Len(buf) /\ IsSpace(buf[k + 1]) THEN TrimLeft(buf, k + 1) ELSE k

RECURSIVE TrimRight(_, _)
TrimRight(buf, k) ==
    IF k > 0 /\ IsSpace(buf[k]) THEN TrimRight(buf, k - 1) ELSE k

\* bytes.TrimSpace(buf)
TrimSpace(buf) ==
    LET a == TrimLeft(buf, 0)
        b == TrimRight(buf, Len(buf))
    IN  IF a >= b THEN <<>> ELSE Sl(buf, a, b)

RECURSIVE SplitFrom(_, _, _, _)
\* the parts of buf[k:] around each c; at most n parts when n > 0
SplitFrom(buf, c, k, n) ==
    LET i == IndexFrom(buf, c, k)
    IN  IF i < 0 \/ n = 1 THEN << From(buf, k) >>
        ELSE << Sl(buf, k, i) >> \o SplitFrom(buf, c, i + 1, n - 1)

\* bytes.Split(buf, []byte{c})
Split(buf, c) == SplitFrom(buf, c, 0, 0)

\* bytes.SplitN(buf, []byte{c}, n), n > 0
SplitN(buf, c, n) == SplitFrom(buf, c, 0, n)

RECURSIVE Join(_, _)
\* bytes.Join(parts, []byte{c})
Join(parts, c) ==
    IF Len(parts) = 0 THEN <<>>
    ELSE IF Len(parts) = 1 THEN parts[1]
    ELSE parts[1] \o << c >> \o Join(Tail(parts), c)

\* whether buf begins with the bytes of p
HasPrefix(buf, p) == Len(buf) >= Len(p) /\ SubSeq(buf, 1, Len(p)) = p

LowerCase == B("abcdefghijklmnopqrstuvwxyz")

UpperCase == B("ABCDEFGHIJKLMNOPQRSTUVWXYZ")

Digits == B("0123456789")

\* the 1-based place of c in the alphabet abc, or 0
Place(abc, c) == IF \E i \in 1..Len(abc) : abc[i] = c THEN CHOOSE i \in 1..Len(abc) : abc[i] = c ELSE 0

IsDigit(c) == Place(Digits, c) > 0

IsLetter(c) == Place(LowerCase, c) > 0 \/ Place(UpperCase, c) > 0

ToLowerCh(c) == IF Place(UpperCase, c) > 0 THEN LowerCase[Place(UpperCase, c)] ELSE c

ToUpperCh(c) == IF Place(LowerCase, c) > 0 THEN UpperCase[Place(LowerCase, c)] ELSE c

\* strings.ToLower
ToLower(s) == [i \in 1..Len(s) |-> ToLowerCh(s[i])]

\* strings.Title: a letter is upper-cased when it starts the string or follows
\* a separator (anything but a letter, a digit or an underscore)
Title(s) ==
    [i \in 1..Len(s) |->
        IF i = 1 \/ ~(IsLetter(s[i - 1]) \/ IsDigit(s[i - 1]) \/ s[i - 1] = "_")
        THEN ToUpperCh(s[i]) ELSE s[i]]

RECURSIVE DigitsValue(_, _, _)
DigitsValue(s, k, acc) ==
    IF k > Len(s) THEN acc
    ELSE DigitsValue(s, k + 1, acc * 10 + (Place(Digits, s[k]) - 1))

\* strconv.ParseInt(s, 10, 64) and strconv.Atoi(s): an optional sign and then
\* one or more decimal digits (the inputs of the model stay far from 2^63)
ParseInt(s) ==
    LET signed == Len(s) > 0 /\ s[1] \in {"+", "-"}
        d      == IF signed THEN Tail(s) ELSE s
        ok     == Len(d) > 0 /\ \A i \in 1..Len(d) : IsDigit(d[i])
        v      == IF ok THEN DigitsValue(d, 1, 0) ELSE 0
    IN  [ok |-> ok, v |-> IF signed /\ s[1] = "-" THEN 0 - v ELSE v]

\* whether s has the shape of pat, where 0 in pat stands for any digit
Shaped(s, pat) ==
    /\ Len(s) = Len(pat)
    /\ \A i \in 1..Len(pat) : IF pat[i] = "0" THEN IsDigit(s[i]) ELSE s[i] = pat[i]

\* time.Parse(time.RFC3339, s) succeeds (the UTC form, as in the examples)
IsRFC3339(s) == Shaped(s, B("0000-00-00T00:00:00Z"))

\* time.Parse(ARCTime, s) succeeds
IsARCTime(s) == Shaped(s, B("00000000000000"))

\* --------------------------------------------------- header-block parsing

RECURSIVE blankLineFrom(_, _)
\* the loop of indexBlankLine, i being the bytes passed so far
blankLineFrom(buf, i) ==
    LET idx == IndexByte(From(buf, i), "\n")
    IN  IF idx > -1
        THEN IF idx < 3 THEN i + idx + 1 ELSE blankLineFrom(buf, i + idx + 1)
        ELSE -1

\* indexBlankLine(buf): the offset just after the first line of fewer than 3
\* bytes before its newline, or -1
indexBlankLine(buf) == blankLineFrom(buf, 0)

\* readline(buf): the first line without its newline, and the offset of the
\* rest (0 when this is the last line)
readline(buf) ==
    LET nl == IndexByte(buf, "\n")
    IN  IF nl < 0 THEN [line |-> buf, adv |-> 0]
        ELSE IF nl = Len(buf) - 1 THEN [line |-> Sl(buf, 0, nl), adv |-> 0]
        ELSE [line |-> Sl(buf, 0, nl), adv |-> nl + 1]

RECURSIVE skipspaceFrom(_, _)
skipspaceFrom(buf, n) ==
    IF n = Len(buf) THEN n
    ELSE IF buf[n + 1] # " " /\ buf[n + 1] # "\t" THEN n
    ELSE skipspaceFrom(buf, n + 1)

\* skipspace(buf): the number of leading spaces and tabs
skipspace(buf) == skipspaceFrom(buf, 0)

\* append(append(ret, ' '), n...) where ret is mem[rs : rs+rl], a slice whose
\* capacity reaches the end of mem: the bytes are written in place
appendInPlace(mem, rs, rl, n) ==
    [i \in 1..Len(mem) |->
        IF i = rs + rl + 1 THEN " "
        ELSE IF i > rs + rl + 1 /\ i <= rs + rl + 1 + Len(n) THEN n[i - (rs + rl + 1)]
        ELSE mem[i]]

RECURSIVE foldLines(_, _, _, _)
\* the inner loop of the getLines closure: continuation lines (leading space
\* or tab) are folded into ret = mem[rs : rs+rl]; p is the offset of buf in mem
foldLines(mem, rs, rl, p) ==
    LET s == skipspace(From(mem, p))
    IN  IF s = 0 THEN [mem |-> mem, rl |-> rl, p |-> p]
        ELSE LET q    == p + s
                 r1   == readline(From(mem, q))
                 mem2 == appendInPlace(mem, rs, rl, r1.line)
                 rl2  == rl + 1 + Len(r1.line)
             IN  IF r1.adv = 0 THEN [mem |-> mem2, rl |-> rl2, p |-> -1]
                 ELSE foldLines(mem2, rs, rl2, q + r1.adv)

RECURSIVE getLinesFrom(_, _, _)
\* the calls of the getLines closure until it returns nil; p = -1 is buf == nil
getLinesFrom(mem, p, acc) ==
    IF p < 0 THEN [lines |-> acc, buf |-> mem]
    ELSE With(readline(From(mem, p)), LAMBDA r1 :
             IF r1.adv = 0 THEN [lines |-> Append(acc, r1.line), buf |-> mem]
             ELSE With(foldLines(mem, p, Len(r1.line), p + r1.adv), LAMBDA f :
                      getLinesFrom(f.mem, f.p, Append(acc, Sl(f.mem, p, p + f.rl)))))

\* getLines(buf): the logical lines the iterator yields, and buf as the
\* iterator leaves it (a nil or empty buf yields no key/value line)
getLines(buf) == getLinesFrom(buf, IF Len(buf) = 0 THEN -1 ELSE 0, <<>>)

KType == B("WARC-Type")

KTargetURI == B("WARC-Target-URI")

KDate == B("WARC-Date")

KContentLength == B("Content-Length")

KRecordID == B("WARC-Record-ID")

KSegmentNumber == B("WARC-Segment-Number")

KSegmentOriginID == B("WARC-Segment-Origin-ID")

KSegmentTotalLength == B("WARC-Segment-Total-Length")

\* the WARCHeaders table: Title-cased key -> canonical key
WARCHeaders ==
    << << B("Warc-Type"), KType >>,
       << B("Warc-Record-Id"), KRecordID >>,
       << B("Warc-Date"), KDate >>,
       << B("Content-Length"), KContentLength >>,
       << B("Content-Type"), B("Content-Type") >>,
       << B("Warc-Concurrent-To"), B("WARC-Concurrent-To") >>,
       << B("Warc-Block-Digest"), B("WARC-Block-Digest") >>,
       << B("Warc-Payload-Digest"), B("WARC-Payload-Digest") >>,
       << B("Warc-Ip-Address"), B("WARC-IP-Address") >>,
       << B("Warc-Refers-To"), B("WARC-Refers-To") >>,
       << B("Warc-Target-Uri"), KTargetURI >>,
       << B("Warc-Truncated"), B("WARC-Truncated") >>,
       << B("Warc-Warcinfo-Id"), B("WARC-Warcinfo-ID") >>,
       << B("Warc-Filename"), B("WARC-Filename") >>,
       << B("Warc-Profile"), B("WARC-Profile") >>,
       << B("Warc-Identified-Payload-Type"), B("WARC-Identified-Payload-Type") >>,
       << B("Warc-Segment-Origin-Id"), KSegmentOriginID >>,
       << B("Warc-Segment-Number"), KSegmentNumber >>,
       << B("Warc-Segment-Total-Length"), KSegmentTotalLength >> >>

\* a normaliseKey that title-cases the parts as they are spelled
normaliseKeyAsSpelled(k) ==
    With(Split(k, "-"), LAMBDA parts :
        Join([i \in 1..Len(parts) |-> Title(parts[i])], "-"))

\* normaliseKey(k): every hyphen-separated part lower-cased and then
\* title-cased, the result mapped through WARCHeaders
normaliseKey(k) ==
    With(Split(k, "-"), LAMBDA parts :
    With(Join([i \in 1..Len(parts) |-> Title(ToLower(parts[i]))], "-"), LAMBDA s :
        IF \E i \in 1..Len(WARCHeaders) : WARCHeaders[i][1] = s
        THEN WARCHeaders[CHOOSE i \in 1..Len(WARCHeaders) : WARCHeaders[i][1] = s][2]
        ELSE s))

RECURSIVE selectFrom(_, _, _, _)
\* the loop of getSelectValues over the lines from the k-th on
selectFrom(lines, k, vals, ret) ==
    IF k > Len(lines) THEN ret
    ELSE With(SplitN(lines[k], ":", 2), LAMBDA parts :
         With(normaliseKey(parts[1]), LAMBDA key :
             IF Len(parts) = 2
             THEN selectFrom(lines, k + 1, vals,
                      [i \in 1..Len(vals) |->
                          IF vals[i] = key THEN TrimSpace(parts[2]) ELSE ret[i]])
             ELSE selectFrom(lines, k + 1, vals, ret)))

\* getSelectValues(buf, vals...): for each wanted key the trimmed value of
\* its last line ("" when absent), and buf as getLines leaves it
getSelectValues(buf, vals) ==
    With(getLines(buf), LAMBDA g :
        [vals |-> selectFrom(g.lines, 1, vals, [i \in 1..Len(vals) |-> <<>>]),
         buf  |-> g.buf])

RECURSIVE allFrom(_, _, _)
\* the loop of getAllValues over the lines from the k-th on
allFrom(lines, k, ret) ==
    IF k > Len(lines) THEN ret
    ELSE With(Split(lines[k], ":"), LAMBDA parts :
         With(normaliseKey(parts[1]), LAMBDA key :
             LET old == IF key \in DOMAIN ret THEN ret[key] ELSE <<>>
             IN  IF Len(parts) = 2
                 THEN allFrom(lines, k + 1,
                          [x \in DOMAIN ret \cup {key} |->
                              IF x = key THEN Append(old, TrimSpace(parts[2])) ELSE ret[x]])
                 ELSE allFrom(lines, k + 1, ret)))

\* the map with no key
EmptyMap == [x \in {} |-> <<>>]

\* getAllValues(buf): canonical key -> the values in order of appearance, and
\* buf as getLines leaves it
getAllValues(buf) ==
    With(getLines(buf), LAMBDA g : [m |-> allFrom(g.lines, 1, EmptyMap), buf |-> g.buf])

\* ---------------------------------------------------------- source adapter

\* the first window readLine asks a slicer for, and the step it grows by
ReadLineWindow == 100

\* the first window storeLines asks a slicer for, and the step it grows by
StoreLinesWindow == 1000

\* the three bytes isgzip looks for
GzMagic == << "0x1f", "0x8b", "0x08" >>

\* a gzip stream in the model: the magic, one byte standing for the rest of a
\* valid member header, then the data (stored)
GzHeader == GzMagic \o << "gzhdr" >>

\* gzip.NewReader over raw: fails on a bad member header, else yields the data
gunzip(raw) ==
    IF HasPrefix(raw, GzHeader) THEN [ok |-> TRUE, data |-> From(raw, Len(GzHeader))]
    ELSE [ok |-> FALSE, data |-> <<>>]

\* isgzip(buf), buf of 3 bytes
isgzip(buf) == ~(buf[1] # "0x1f" \/ buf[2] # "0x8b" \/ buf[3] # "0x08")

\* the slicer interface, src.Slice(off, l): the bytes [off, off+l) of the
\* source, cut short at its end with io.EOF; an offset or length below zero is
\* an out-of-range slice expression in the source's buffer
SrcSlice(raw, off, l) ==
    IF off < 0 \/ l < 0 THEN [b |-> <<>>, err |-> "panic"]
    ELSE IF off >= Len(raw) THEN [b |-> <<>>, err |-> "EOF"]
    ELSE IF off + l > Len(raw) THEN [b |-> From(raw, off), err |-> "EOF"]
    ELSE [b |-> Sl(raw, off, off + l), err |-> "nil"]

\* bufio.Reader.Peek(i) on a buffer that yields data and stands at pos
BufPeek(data, pos, i) ==
    IF pos + i <= Len(data) THEN [b |-> Sl(data, pos, pos + i), err |-> "nil"]
    ELSE [b |-> From(data, pos), err |-> "EOF"]

\* bufio.Reader.ReadBytes('\n'): through the newline, or to the end with io.EOF
BufReadBytes(data, pos) ==
    LET i == IndexFrom(data, "\n", pos)
    IN  IF i > -1 THEN [b |-> Sl(data, pos, i + 1), err |-> "nil", pos |-> i + 1]
        ELSE [b |-> From(data, pos), err |-> "EOF", pos |-> Max(pos, Len(data))]

\* fullRead(r, p) with len(p) = n: reads until p is full or the buffer fails
fullRead(data, pos, n) ==
    IF n = 0 THEN [b |-> <<>>, err |-> "nil", pos |-> pos]
    ELSE IF pos + n <= Len(data) THEN [b |-> Sl(data, pos, pos + n), err |-> "nil", pos |-> pos + n]
    ELSE [b |-> From(data, pos), err |-> "EOF", pos |-> Max(pos, Len(data))]

\* a reader that has not ended the process
Alive(r) == r.status = "ok"

\* a discard that leaves the source where it is
discardNothing(r, i) == r

\* discard(r.buf, i): a negative i is an out-of-range slice of discardBuf, a
\* short read ends the process in log.Fatalf
discard(r, i) ==
    IF i < 0 THEN [r EXCEPT !.status = "panic"]
    ELSE LET f == fullRead(r.data, r.pos, i)
         IN  IF Len(f.b) # i THEN [r EXCEPT !.status = "fatal", !.pos = f.pos]
             ELSE [r EXCEPT !.pos = f.pos]

\* reader.peek(i)
peek(r, i) ==
    IF r.slicer THEN SrcSlice(r.raw, r.idx, i) ELSE BufPeek(r.data, r.pos, i)

\* reader.srcpeek(i): from r.src or r.sbuf, before any decompression
srcpeek(r, i) ==
    IF r.slicer THEN SrcSlice(r.raw, r.idx, i) ELSE BufPeek(r.raw, 0, i)

\* reader.unzip()
unzip(r) ==
    LET pk == srcpeek(r, 3)
        gz == gunzip(r.raw)
    IN  IF pk.err = "panic" THEN [r |-> [r EXCEPT !.status = "panic"], err |-> "nil"]
        ELSE IF pk.err = "nil" /\ isgzip(pk.b)
        THEN IF ~gz.ok THEN [r |-> r, err |-> "ErrGzipHeader"]
             ELSE [r |-> [r EXCEPT !.closer = TRUE, !.data = gz.data, !.pos = 0,
                                   !.slicer = FALSE],
                   err |-> "nil"]
        ELSE [r |-> [r EXCEPT !.closer = FALSE, !.data = r.raw, !.pos = 0], err |-> "nil"]

\* the reader struct as newReader allocates it, before unzip
blankReader(raw, able) ==
    [status |-> "ok", raw |-> raw, able |-> able, slicer |-> able, closer |-> FALSE,
     data |-> <<>>, pos |-> 0, idx |-> 0, thisIdx |-> 0, sz |-> 0, store |-> <<>>]

\* newReader(s): s holds raw and has the Slice method iff able
newReader(raw, able) == unzip(blankReader(raw, able))

\* reader.reset(s)
reset(r, raw, able) ==
    unzip([r EXCEPT !.raw = raw, !.able = able, !.slicer = able,
                    !.idx = 0, !.thisIdx = 0, !.sz = 0])

RECURSIVE readLineSlicer(_, _)
\* the loop of readLine on a slicer, l being the window
readLineSlicer(r, l) ==
    LET s == SrcSlice(r.raw, r.idx, l)
        i == IndexByte(s.b, "\n")
    IN  IF s.err = "panic" THEN [r |-> [r EXCEPT !.status = "panic"], b |-> <<>>, err |-> "nil"]
        ELSE IF i > -1
        THEN [r |-> [r EXCEPT !.idx = r.idx + i + 1], b |-> Sl(s.b, 0, i + 1), err |-> "nil"]
        ELSE IF s.err # "nil" \/ Len(s.b) < l
        THEN [r |-> r, b |-> <<>>, err |-> IF s.err = "nil" THEN "EOF" ELSE s.err]
        ELSE readLineSlicer(r, l + ReadLineWindow)

\* reader.readLine()
readLine(r) ==
    IF r.slicer THEN readLineSlicer(r, ReadLineWindow)
    ELSE LET f == BufReadBytes(r.data, r.pos)
         IN  [r |-> [r EXCEPT !.pos = f.pos], b |-> f.b, err |-> f.err]

RECURSIVE storeLinesSlicer(_, _, _, _)
\* the loop of storeLines on a slicer, l being the window
storeLinesSlicer(r, start, alter, l) ==
    LET s   == SrcSlice(r.raw, r.idx, l)
        idx == indexBlankLine(s.b)
        r2  == [r EXCEPT !.idx = r.idx + idx, !.sz = IF alter THEN r.sz - idx ELSE r.sz]
        out == SrcSlice(r.raw, start, r2.idx - start)
    IN  IF s.err = "panic" THEN [r |-> [r EXCEPT !.status = "panic"], b |-> <<>>, err |-> "nil"]
        ELSE IF Len(s.b) = 0 THEN [r |-> r, b |-> <<>>, err |-> s.err]
        ELSE IF idx > -1
        THEN IF out.err = "panic"
             THEN [r |-> [r2 EXCEPT !.status = "panic"], b |-> <<>>, err |-> "nil"]
             ELSE [r |-> r2, b |-> out.b, err |-> out.err]
        ELSE IF Len(s.b) < l THEN [r |-> r, b |-> <<>>, err |-> "EOF"]
        ELSE storeLinesSlicer(r, start, alter, l + StoreLinesWindow)

\* r.store[:i]; bytes of the store never written read as zero
storePrefix(store, i) == [k \in 1..i |-> IF k <= Len(store) THEN store[k] ELSE "0x00"]

RECURSIVE storeLinesBuf(_, _, _, _)
\* the loop of storeLines on a buffered reader; kept is r.store[:i]
storeLinesBuf(r, kept, alterSz, alter) ==
    LET f    == BufReadBytes(r.data, r.pos)
        r2   == [r EXCEPT !.pos = f.pos]
        all  == kept \o f.b
    IN  IF f.err # "nil" THEN [r |-> [r2 EXCEPT !.store = kept], b |-> kept, err |-> f.err]
        ELSE IF Len(f.b) < 3
        THEN [r |-> [r2 EXCEPT !.store = all,
                               !.sz = IF alter THEN r.sz - (Len(all) - alterSz) ELSE r.sz],
              b |-> all, err |-> "nil"]
        ELSE storeLinesBuf(r2, all, alterSz, alter)

\* a storeLines that never takes the block off the record's size
storeLinesUnaltered(r, i, alter) ==
    IF r.slicer THEN storeLinesSlicer(r, r.idx - i, FALSE, StoreLinesWindow)
    ELSE storeLinesBuf(r, storePrefix(r.store, i), i, FALSE)

\* reader.storeLines(i, alter): reads to the first line of fewer than 3 bytes
\* and returns the i bytes before the cursor followed by what was read
storeLines(r, i, alter) ==
    IF r.slicer THEN storeLinesSlicer(r, r.idx - i, alter, StoreLinesWindow)
    ELSE storeLinesBuf(r, storePrefix(r.store, i), i, alter)

RECURSIVE skipBlankLines(_)
\* the loop of next: read lines until one has text or readLine fails
skipBlankLines(r) ==
    LET f == readLine(r)
    IN  IF Alive(f.r) /\ f.err = "nil" /\ Len(TrimSpace(f.b)) = 0
        THEN skipBlankLines(f.r)
        ELSE f

\* reader.next(): skip what is left of the current record, then the blank
\* lines, and return the first line with text
next(r) ==
    LET r1 == [r EXCEPT !.idx = r.idx + r.sz]
        r2 == IF r.thisIdx < r.sz /\ ~r.slicer THEN discard(r1, r.sz - r.thisIdx) ELSE r1
    IN  IF ~Alive(r2) THEN [r |-> r2, b |-> <<>>, err |-> "nil"]
        ELSE skipBlankLines(r2)

\* a Read that fills p whatever is left of the record
ReadUnbounded(r, n) ==
    LET r1 == [r EXCEPT !.thisIdx = r.thisIdx + n]
        f  == fullRead(r.data, r.pos, n)
        s  == SrcSlice(r.raw, r.idx + r.thisIdx, n)
    IN  IF ~r.slicer THEN [r |-> [r1 EXCEPT !.pos = f.pos], b |-> f.b, err |-> f.err]
        ELSE IF s.err = "panic" THEN [r |-> [r1 EXCEPT !.status = "panic"], b |-> <<>>, err |-> "nil"]
        ELSE [r |-> r1, b |-> s.b, err |-> s.err]

\* reader.Read(p) with len(p) = n
Read(r, n) ==
    IF r.thisIdx >= r.sz THEN [r |-> r, b |-> <<>>, err |-> "EOF"]
    ELSE LET l  == IF n > r.sz - r.thisIdx THEN r.sz - r.thisIdx ELSE n
             r1 == [r EXCEPT !.thisIdx = r.thisIdx + l]
             f  == fullRead(r.data, r.pos, l)
             s  == SrcSlice(r.raw, r.idx + r1.thisIdx - l, l)
         IN  IF ~r.slicer THEN [r |-> [r1 EXCEPT !.pos = f.pos], b |-> f.b, err |-> f.err]
             ELSE IF s.err = "panic" THEN [r |-> [r1 EXCEPT !.status = "panic"], b |-> <<>>, err |-> "nil"]
             ELSE [r |-> r1, b |-> s.b, err |-> s.err]

\* a Slice that asks the source whatever kind of source it is
SliceUnchecked(r, off, l) ==
    LET s == SrcSlice(r.raw, r.idx + off, l)
    IN  [r |-> r, b |-> s.b, err |-> IF s.err = "panic" THEN "nil" ELSE s.err]

\* reader.Slice(off, l)
Slice(r, off, l) ==
    IF ~r.slicer THEN [r |-> r, b |-> <<>>, err |-> "ErrNotSlicer"]
    ELSE IF off >= r.sz THEN [r |-> r, b |-> <<>>, err |-> "EOF"]
    ELSE LET cut == l > r.sz - off
             l2  == IF cut THEN r.sz - off ELSE l
             s   == SrcSlice(r.raw, r.idx + off, l2)
         IN  IF s.err = "panic" THEN [r |-> [r EXCEPT !.status = "panic"], b |-> <<>>, err |-> "nil"]
             ELSE [r |-> r, b |-> s.b,
                   err |-> IF s.err # "nil" THEN s.err ELSE IF cut THEN "EOF" ELSE "nil"]

\* an EofSlice that counts the offset from the start of the record
EofSliceFromStart(r, off, l) == Slice(r, off, l)

\* reader.EofSlice(off, l)
EofSlice(r, off, l) ==
    IF ~r.slicer THEN [r |-> r, b |-> <<>>, err |-> "ErrNotSlicer"]
    ELSE IF off >= r.sz THEN [r |-> r, b |-> <<>>, err |-> "EOF"]
    ELSE LET cut  == l > r.sz - off
             l2   == IF cut THEN r.sz - off ELSE l
             off2 == IF cut THEN 0 ELSE r.sz - off - l
             s    == SrcSlice(r.raw, r.idx + off2, l2)
         IN  IF s.err = "panic" THEN [r |-> [r EXCEPT !.status = "panic"], b |-> <<>>, err |-> "nil"]
             ELSE [r |-> r, b |-> s.b,
                   err |-> IF s.err # "nil" THEN s.err ELSE IF cut THEN "EOF" ELSE "nil"]

\* a Close that also takes the caller back to the start of the record
CloseRewinds(r) == [r |-> [r EXCEPT !.thisIdx = 0], err |-> "nil"]

\* reader.Close(): nil without a closer, else what gzip.Reader.Close gives,
\* the error its decompressor holds, here none; in both cases the reader is
\* left as it is
Close(r) ==
    IF ~r.closer THEN [r |-> r, err |-> "nil"]
    ELSE [r |-> r, err |-> "nil"]

\* ------------------------------------------------------------ WARC parser

\* mem with the bytes from offset at on replaced by buf
Splice(mem, at, buf) ==
    [i \in 1..Len(mem) |-> IF i > at /\ i <= at + Len(buf) THEN buf[i - at] ELSE mem[i]]

\* A field block is a slice of the source (slicer) or of r.store (buffered):
\* what getLines writes into the block it writes into that memory.  at is the
\* offset of the block in the source, -1 for a block of a source that the
\* reader has since been reset away from.
aliasFields(r, at, buf) ==
    IF r.slicer THEN IF at < 0 THEN r ELSE [r EXCEPT !.raw = Splice(r.raw, at, buf)]
    ELSE [r EXCEPT !.store = buf \o From(r.store, Len(buf))]

\* &WARCHeader{}
blankWARCHeader ==
    [Type |-> <<>>, url |-> <<>>, ID |-> <<>>, date |-> <<>>, size |-> 0, segment |-> 0,
     fields |-> <<>>, at |-> 0]

\* WARCReader.reset(): the magic probe
warcReset(r) ==
    LET v == peek(r, 4)
    IN  IF v.err # "nil" \/ v.b # B("WARC") THEN "ErrWARCHeader" ELSE "nil"

\* a Next that takes a Content-Length it cannot parse for 0
WARCNextAnyLength(m) ==
    With(next(m.r), LAMBDA f :
    With(storeLines(f.r, 0, FALSE), LAMBDA st :
    With(getSelectValues(st.b, << KType, KTargetURI, KDate, KContentLength,
                                  KRecordID, KSegmentNumber >>), LAMBDA sel :
    With(ParseInt(sel.vals[4]), LAMBDA size :
    With(ParseInt(sel.vals[6]), LAMBDA seg :
    LET at   == IF f.r.slicer THEN f.r.idx ELSE 0
        v    == sel.vals
        r3   == aliasFields(st.r, at, sel.buf)
        w1   == [m.w EXCEPT !.fields = sel.buf, !.at = at,
                            !.Type = v[1], !.url = v[2], !.ID = v[5],
                            !.date = IF IsRFC3339(v[3]) THEN v[3] ELSE <<>>]
        w2   == [w1 EXCEPT !.size = size.v]
        r4   == [r3 EXCEPT !.thisIdx = 0, !.sz = size.v]
    IN  IF ~Alive(f.r) THEN [m EXCEPT !.r = f.r, !.err = "crash"]
        ELSE IF f.err # "nil" THEN [m EXCEPT !.r = f.r, !.err = f.err]
        ELSE IF ~Alive(st.r) THEN [m EXCEPT !.r = st.r, !.err = "crash"]
        ELSE IF st.err # "nil"
        THEN [m EXCEPT !.r = st.r, !.w.fields = st.b, !.w.at = at, !.err = "ErrWARCRecord"]
        ELSE IF ~IsRFC3339(v[3]) THEN [m EXCEPT !.r = r3, !.w = w1, !.err = "ErrParseTime"]
        ELSE IF v[6] # <<>> /\ ~seg.ok
        THEN [m EXCEPT !.r = r4, !.w = [w2 EXCEPT !.segment = 0], !.err = "ErrParseInt"]
        ELSE [m EXCEPT !.r = r4, !.w = [w2 EXCEPT !.segment = IF v[6] # <<>> THEN seg.v ELSE 0],
                       !.err = "nil", !.nrec = m.nrec + 1])))))

\* WARCReader.Next() on m = [r: the reader, w: the WARCHeader, ...]: the
\* result carries the reader and header as the call leaves them, err, and
\* nrec, the count of records Next has returned
WARCNext(m) ==
    With(next(m.r), LAMBDA f :
    With(storeLines(f.r, 0, FALSE), LAMBDA st :
    With(getSelectValues(st.b, << KType, KTargetURI, KDate, KContentLength,
                                  KRecordID, KSegmentNumber >>), LAMBDA sel :
    With(ParseInt(sel.vals[4]), LAMBDA size :
    With(ParseInt(sel.vals[6]), LAMBDA seg :
    LET at   == IF f.r.slicer THEN f.r.idx ELSE 0
        v    == sel.vals
        r3   == aliasFields(st.r, at, sel.buf)
        w1   == [m.w EXCEPT !.fields = sel.buf, !.at = at,
                            !.Type = v[1], !.url = v[2], !.ID = v[5],
                            !.date = IF IsRFC3339(v[3]) THEN v[3] ELSE <<>>]
        w2   == [w1 EXCEPT !.size = size.v]
        r4   == [r3 EXCEPT !.thisIdx = 0, !.sz = size.v]
    IN  IF ~Alive(f.r) THEN [m EXCEPT !.r = f.r, !.err = "crash"]
        ELSE IF f.err # "nil" THEN [m EXCEPT !.r = f.r, !.err = f.err]
        ELSE IF ~Alive(st.r) THEN [m EXCEPT !.r = st.r, !.err = "crash"]
        ELSE IF st.err # "nil"
        THEN [m EXCEPT !.r = st.r, !.w.fields = st.b, !.w.at = at, !.err = "ErrWARCRecord"]
        ELSE IF ~IsRFC3339(v[3]) THEN [m EXCEPT !.r = r3, !.w = w1, !.err = "ErrParseTime"]
        ELSE IF ~size.ok THEN [m EXCEPT !.r = r3, !.w = w2, !.err = "ErrParseInt"]
        ELSE IF v[6] # <<>> /\ ~seg.ok
        THEN [m EXCEPT !.r = r4, !.w = [w2 EXCEPT !.segment = 0], !.err = "ErrParseInt"]
        ELSE [m EXCEPT !.r = r4, !.w = [w2 EXCEPT !.segment = IF v[6] # <<>> THEN seg.v ELSE 0],
                       !.err = "nil", !.nrec = m.nrec + 1])))))

\* ioutil.ReadAll(w): Read until io.EOF, every other error dropped by put
ReadAll(r) == With(Read(r, Max(r.sz - r.thisIdx, 1)), LAMBDA f : [r |-> f.r, b |-> f.b])

\* a slot of continuation.bufs: nil until a segment is stored in it
NilSlot == [has |-> FALSE, b |-> <<>>]

RECURSIVE Concat(_)
\* the payloads of the slots, in slot order
Concat(bufs) == IF Len(bufs) = 0 THEN <<>> ELSE bufs[1].b \o Concat(Tail(bufs))

\* continuation.complete(): whether the final segment and all before it are
\* there, and the continuation with buf, idx, start and fields set if so
complete(c) ==
    With(c.fields \o Concat(c.bufs), LAMBDA buf :
    With(indexBlankLine(From(buf, Len(c.fields))), LAMBDA bi :
    LET whole == c.final /\ \A i \in 1..Len(c.bufs) : c.bufs[i].has
        idx   == Len(c.fields)
        body  == From(buf, idx)
        fold  == Len(body) > 5 /\ Sl(body, 0, 5) = B("HTTP/") /\ bi > -1
    IN  IF ~whole THEN [ok |-> FALSE, c |-> c]
        ELSE [ok |-> TRUE,
              c  |-> [c EXCEPT !.buf = buf,
                               !.idx = IF fold THEN idx + bi ELSE idx,
                               !.start = IF fold THEN idx + bi ELSE idx,
                               !.fields = IF fold THEN Sl(buf, 0, idx + bi) ELSE Sl(buf, 0, idx)]]))

\* WARCHeader.Fields() on the reader's own header: the map, and the reader and
\* header with the field block as getLines leaves it
warcFields(m) ==
    With(getAllValues(m.w.fields), LAMBDA g :
        [m |-> [m EXCEPT !.w.fields = g.buf, !.r = aliasFields(m.r, m.w.at, g.buf)],
         map |-> g.m])

\* a put that leaves the entry of a merged record in the table
putKeepsEntry(m) ==
    With(warcFields(m), LAMBDA fl :
    With(IF m.w.segment > 1 THEN fl.m ELSE m, LAMBDA m1 :
    With(ReadAll(m1.r), LAMBDA all :
    With(IF m.w.segment > 1
         THEN IF KSegmentOriginID \in DOMAIN fl.map THEN fl.map[KSegmentOriginID][1] ELSE <<>>
         ELSE m.w.ID, LAMBDA id :
    With(IF id \in DOMAIN m.conts THEN m.conts[id]
         ELSE [url |-> m.w.url, ID |-> m.w.ID, date |-> m.w.date, Type |-> m.w.Type,
               fields |-> m1.w.fields, final |-> FALSE, idx |-> 0, start |-> 0,
               bufs |-> [i \in 1..m.w.segment |-> NilSlot], buf |-> <<>>], LAMBDA cr0 :
    With([cr0 EXCEPT !.final = cr0.final
                        \/ (m.w.segment > 1 /\ KSegmentTotalLength \in DOMAIN fl.map)],
         LAMBDA cr1 :
    With(IF Len(cr1.bufs) < m.w.segment THEN cr1
         ELSE [cr1 EXCEPT !.bufs[m.w.segment] = [has |-> TRUE, b |-> all.b]], LAMBDA cr2 :
    With(complete(cr2), LAMBDA done :
    LET w     == m.w
        keep  == [x \in DOMAIN m.conts \cup {id} |-> IF x = id THEN cr2 ELSE m.conts[x]]
        drop  == [x \in DOMAIN m.conts \ {id} |-> m.conts[x]]
    IN  IF ~Alive(all.r) THEN [m1 EXCEPT !.r = all.r, !.out = "panic"]
        ELSE IF Len(cr1.bufs) < w.segment
        THEN [m1 EXCEPT !.r = [all.r EXCEPT !.status = "panic"], !.out = "panic",
                        !.puts = Append(m.puts, "panic"),
                        !.conts = [x \in DOMAIN m.conts \cup {id} |->
                                      IF x = id THEN cr1 ELSE m.conts[x]]]
        ELSE IF ~done.ok
        THEN [m1 EXCEPT !.r = all.r, !.conts = keep, !.out = "none",
                        !.puts = Append(m.puts, "none")]
        ELSE [m1 EXCEPT !.r = all.r, !.conts = keep, !.c = done.c, !.out = "cont",
                        !.puts = Append(m.puts, "cont")]))))))))

\* a put that gives the entry the identity of every segment submitted
putLatestIdentity(m) ==
    With(warcFields(m), LAMBDA fl :
    With(IF m.w.segment > 1 THEN fl.m ELSE m, LAMBDA m1 :
    With(ReadAll(m1.r), LAMBDA all :
    With(IF m.w.segment > 1
         THEN IF KSegmentOriginID \in DOMAIN fl.map THEN fl.map[KSegmentOriginID][1] ELSE <<>>
         ELSE m.w.ID, LAMBDA id :
    With(IF id \in DOMAIN m.conts
         THEN [m.conts[id] EXCEPT !.url = m.w.url, !.ID = m.w.ID, !.date = m.w.date,
                                  !.Type = m.w.Type, !.fields = m1.w.fields]
         ELSE [url |-> m.w.url, ID |-> m.w.ID, date |-> m.w.date, Type |-> m.w.Type,
               fields |-> m1.w.fields, final |-> FALSE, idx |-> 0, start |-> 0,
               bufs |-> [i \in 1..m.w.segment |-> NilSlot], buf |-> <<>>], LAMBDA cr0 :
    With([cr0 EXCEPT !.final = cr0.final
                        \/ (m.w.segment > 1 /\ KSegmentTotalLength \in DOMAIN fl.map)],
         LAMBDA cr1 :
    With(IF Len(cr1.bufs) < m.w.segment THEN cr1
         ELSE [cr1 EXCEPT !.bufs[m.w.segment] = [has |-> TRUE, b |-> all.b]], LAMBDA cr2 :
    With(complete(cr2), LAMBDA done :
    LET w     == m.w
        keep  == [x \in DOMAIN m.conts \cup {id} |-> IF x = id THEN cr2 ELSE m.conts[x]]
        drop  == [x \in DOMAIN m.conts \ {id} |-> m.conts[x]]
    IN  IF ~Alive(all.r) THEN [m1 EXCEPT !.r = all.r, !.out = "panic"]
        ELSE IF Len(cr1.bufs) < w.segment
        THEN [m1 EXCEPT !.r = [all.r EXCEPT !.status = "panic"], !.out = "panic",
                        !.puts = Append(m.puts, "panic"),
                        !.conts = [x \in DOMAIN m.conts \cup {id} |->
                                      IF x = id THEN cr1 ELSE m.conts[x]]]
        ELSE IF ~done.ok
        THEN [m1 EXCEPT !.r = all.r, !.conts = keep, !.out = "none",
                        !.puts = Append(m.puts, "none")]
        ELSE [m1 EXCEPT !.r = all.r, !.conts = drop, !.c = done.c, !.out = "cont",
                        !.puts = Append(m.puts, "cont")]))))))))

\* a put that leaves a slot that is filled as it is
putKeepsFirst(m) ==
    With(warcFields(m), LAMBDA fl :
    With(IF m.w.segment > 1 THEN fl.m ELSE m, LAMBDA m1 :
    With(ReadAll(m1.r), LAMBDA all :
    With(IF m.w.segment > 1
         THEN IF KSegmentOriginID \in DOMAIN fl.map THEN fl.map[KSegmentOriginID][1] ELSE <<>>
         ELSE m.w.ID, LAMBDA id :
    With(IF id \in DOMAIN m.conts THEN m.conts[id]
         ELSE [url |-> m.w.url, ID |-> m.w.ID, date |-> m.w.date, Type |-> m.w.Type,
               fields |-> m1.w.fields, final |-> FALSE, idx |-> 0, start |-> 0,
               bufs |-> [i \in 1..m.w.segment |-> NilSlot], buf |-> <<>>], LAMBDA cr0 :
    With([cr0 EXCEPT !.final = cr0.final
                        \/ (m.w.segment > 1 /\ KSegmentTotalLength \in DOMAIN fl.map)],
         LAMBDA cr1 :
    With(IF Len(cr1.bufs) < m.w.segment \/ cr1.bufs[m.w.segment].has THEN cr1
         ELSE [cr1 EXCEPT !.bufs[m.w.segment] = [has |-> TRUE, b |-> all.b]], LAMBDA cr2 :
    With(complete(cr2), LAMBDA done :
    LET w     == m.w
        keep  == [x \in DOMAIN m.conts \cup {id} |-> IF x = id THEN cr2 ELSE m.conts[x]]
        drop  == [x \in DOMAIN m.conts \ {id} |-> m.conts[x]]
    IN  IF ~Alive(all.r) THEN [m1 EXCEPT !.r = all.r, !.out = "panic"]
        ELSE IF Len(cr1.bufs) < w.segment
        THEN [m1 EXCEPT !.r = [all.r EXCEPT !.status = "panic"], !.out = "panic",
                        !.puts = Append(m.puts, "panic"),
                        !.conts = [x \in DOMAIN m.conts \cup {id} |->
                                      IF x = id THEN cr1 ELSE m.conts[x]]]
        ELSE IF ~done.ok
        THEN [m1 EXCEPT !.r = all.r, !.conts = keep, !.out = "none",
                        !.puts = Append(m.puts, "none")]
        ELSE [m1 EXCEPT !.r = all.r, !.conts = drop, !.c = done.c, !.out = "cont",
                        !.puts = Append(m.puts, "cont")]))))))))

\* continuations.put(w): out is "none" (nil, false), "cont" (the merged
\* record, in m.c) or "panic" (slot index out of range)
put(m) ==
    With(warcFields(m), LAMBDA fl :
    With(IF m.w.segment > 1 THEN fl.m ELSE m, LAMBDA m1 :
    With(ReadAll(m1.r), LAMBDA all :
    With(IF m.w.segment > 1
         THEN IF KSegmentOriginID \in DOMAIN fl.map THEN fl.map[KSegmentOriginID][1] ELSE <<>>
         ELSE m.w.ID, LAMBDA id :
    With(IF id \in DOMAIN m.conts THEN m.conts[id]
         ELSE [url |-> m.w.url, ID |-> m.w.ID, date |-> m.w.date, Type |-> m.w.Type,
               fields |-> m1.w.fields, final |-> FALSE, idx |-> 0, start |-> 0,
               bufs |-> [i \in 1..m.w.segment |-> NilSlot], buf |-> <<>>], LAMBDA cr0 :
    With([cr0 EXCEPT !.final = cr0.final
                        \/ (m.w.segment > 1 /\ KSegmentTotalLength \in DOMAIN fl.map)],
         LAMBDA cr1 :
    With(IF Len(cr1.bufs) < m.w.segment THEN cr1
         ELSE [cr1 EXCEPT !.bufs[m.w.segment] = [has |-> TRUE, b |-> all.b]], LAMBDA cr2 :
    With(complete(cr2), LAMBDA done :
    LET w     == m.w
        keep  == [x \in DOMAIN m.conts \cup {id} |-> IF x = id THEN cr2 ELSE m.conts[x]]
        drop  == [x \in DOMAIN m.conts \ {id} |-> m.conts[x]]
    IN  IF ~Alive(all.r) THEN [m1 EXCEPT !.r = all.r, !.out = "panic"]
        ELSE IF Len(cr1.bufs) < w.segment
        THEN [m1 EXCEPT !.r = [all.r EXCEPT !.status = "panic"], !.out = "panic",
                        !.puts = Append(m.puts, "panic"),
                        !.conts = [x \in DOMAIN m.conts \cup {id} |->
                                      IF x = id THEN cr1 ELSE m.conts[x]]]
        ELSE IF ~done.ok
        THEN [m1 EXCEPT !.r = all.r, !.conts = keep, !.out = "none",
                        !.puts = Append(m.puts, "none")]
        ELSE [m1 EXCEPT !.r = all.r, !.conts = drop, !.c = done.c, !.out = "cont",
                        !.puts = Append(m.puts, "cont")]))))))))

\* what NextPayload's loop can come back to: a state seen before means that
\* the loop never ends
loopState(m) == << m.r.idx, m.r.pos, m.r.thisIdx, m.r.sz, m.r.raw, m.w, m.conts >>

RECURSIVE payloadLoop(_, _)
\* the loop of WARCReader.NextPayload(); seen holds the states at the head of
\* the earlier iterations
payloadLoop(m, seen) ==
    With(WARCNext(m), LAMBDA n :
    With(put(n), LAMBDA p :
    With(peek(n.r, 5), LAMBDA pk :
    With(storeLines(n.r, Len(n.w.fields), TRUE), LAMBDA st :
        IF loopState(m) \in seen THEN [m EXCEPT !.r.status = "spin", !.out = "spin"]
        ELSE IF n.err # "nil" THEN [n EXCEPT !.out = "nil"]
        ELSE IF n.w.segment > 0
        THEN IF p.out = "none" THEN payloadLoop(p, seen \cup {loopState(m)})
             ELSE p
        ELSE IF n.w.Type \in {B("resource"), B("conversion")} THEN [n EXCEPT !.out = "rec"]
        ELSE IF n.w.Type = B("response")
        THEN IF pk.err = "panic" THEN [n EXCEPT !.r.status = "panic", !.out = "panic"]
             ELSE IF pk.err = "nil" /\ pk.b = B("HTTP/")
             THEN IF ~Alive(st.r) THEN [n EXCEPT !.r = st.r, !.out = "panic"]
                  ELSE [n EXCEPT !.r = st.r, !.w.fields = st.b, !.out = "rec",
                                 !.fold = IF st.err = "nil" THEN "yes" ELSE "failed"]
             ELSE [n EXCEPT !.out = "rec"]
        ELSE payloadLoop(n, seen \cup {loopState(m)})))))

\* a NextPayload that hands out whatever Next finds
nextUnfiltered(m) ==
    With(WARCNext(m), LAMBDA n :
        IF n.err = "nil" THEN [n EXCEPT !.out = "rec"] ELSE [n EXCEPT !.out = "nil"])

\* WARCReader.NextPayload()
WARCNextPayload(m) == payloadLoop(m, {})

\* ------------------------------------------------------------- ARC parser

\* a nil *ARC
NoARC ==
    [nil |-> TRUE, Path |-> <<>>, Address |-> <<>>, FileDate |-> <<>>, Version |-> 0,
     OriginCode |-> <<>>]

\* a nil ARCHeader
NoURL ==
    [ok |-> FALSE, v2 |-> FALSE, url |-> <<>>, IP |-> <<>>, date |-> <<>>, MIME |-> <<>>, sz |-> 0,
     fields |-> <<>>, at |-> 0, StatusCode |-> 0, Checksum |-> <<>>, Location |-> <<>>,
     Offset |-> 0, Filename |-> <<>>]

\* ARCReader.readVersionBlock(): the reader as the call leaves it, the ARC
\* value and err
readVersionBlock(r) ==
    With(readLine(r), LAMBDA f1 :
    With(Split(f1.b, " "), LAMBDA line1 :
    With(readLine(f1.r), LAMBDA f2 :
    With(Split(f2.b, " "), LAMBDA line2 :
    With(ParseInt(line2[1]), LAMBDA ver :
    With(ParseInt(TrimSpace(line1[Len(line1)])), LAMBDA len :
    With(IF f2.r.slicer THEN [f2.r EXCEPT !.idx = f2.r.idx + (len.v - Len(f2.b))]
         ELSE discard(f2.r, len.v - Len(f2.b)), LAMBDA r3 :
    LET bad(rr) == [r |-> rr, arc |-> NoARC, err |-> "ErrVersionBlock"]
    IN  IF ~Alive(f1.r) THEN [r |-> f1.r, arc |-> NoARC, err |-> "crash"]
        ELSE IF Len(f1.b) = 0 THEN bad(f1.r)
        ELSE IF Len(line1) < 3 THEN bad(f1.r)
        ELSE IF ~IsARCTime(line1[3]) THEN bad(f1.r)
        ELSE IF ~Alive(f2.r) THEN [r |-> f2.r, arc |-> NoARC, err |-> "crash"]
        ELSE IF Len(line2) < 3 THEN bad(f2.r)
        ELSE IF ~ver.ok THEN bad(f2.r)
        ELSE IF ~len.ok THEN bad(f2.r)
        ELSE IF ~Alive(r3) THEN [r |-> r3, arc |-> NoARC, err |-> "crash"]
        ELSE [r   |-> r3,
              arc |-> [nil |-> FALSE, Path |-> line1[1], Address |-> line1[2], FileDate |-> line1[3],
                       Version |-> ver.v, OriginCode |-> TrimSpace(line2[Len(line2)])],
              err |-> "nil"])))))))

\* makeUrl1(p)
makeUrl1(p) ==
    LET l == ParseInt(p[Len(p)])
    IN  IF Len(p) < 5 THEN NoURL
        ELSE IF ~IsARCTime(p[3]) THEN NoURL
        ELSE IF ~l.ok THEN NoURL
        ELSE [NoURL EXCEPT !.ok = TRUE, !.url = p[1], !.IP = p[2], !.date = p[3],
                           !.MIME = p[4], !.sz = l.v]

\* a makeUrl2 that takes any line makeUrl1 takes
makeUrl2AnyCount(p) ==
    LET u1 == makeUrl1(p)
    IN  IF ~u1.ok THEN NoURL ELSE [u1 EXCEPT !.v2 = TRUE]

\* makeUrl2(p)
makeUrl2(p) ==
    LET u1     == makeUrl1(p)
        status == ParseInt(p[5])
        offset == ParseInt(p[8])
    IN  IF Len(p) # 10 THEN NoURL
        ELSE IF ~u1.ok THEN NoURL
        ELSE IF ~status.ok THEN NoURL
        ELSE IF ~offset.ok THEN NoURL
        ELSE [u1 EXCEPT !.v2 = TRUE, !.StatusCode = status.v, !.Checksum = p[6],
                        !.Location = p[7], !.Offset = offset.v, !.Filename = p[9]]

\* ARCReader.Next(); a.Version on a nil *ARC is a nil dereference
ARCNext(m) ==
    With(next(m.r), LAMBDA f :
    With(Split(TrimSpace(f.b), " "), LAMBDA parts :
    With(IF m.arc.Version = 1 THEN makeUrl1(parts) ELSE makeUrl2(parts), LAMBDA h :
        IF ~Alive(f.r) THEN [m EXCEPT !.r = f.r, !.err = "crash"]
        ELSE IF f.err # "nil" THEN [m EXCEPT !.r = f.r, !.err = f.err]
        ELSE IF m.arc.nil THEN [m EXCEPT !.r = [f.r EXCEPT !.status = "panic"], !.err = "crash"]
        ELSE IF ~h.ok THEN [m EXCEPT !.r = f.r, !.h = h, !.err = "ErrARCHeader"]
        ELSE [m EXCEPT !.r = [f.r EXCEPT !.thisIdx = 0, !.sz = h.sz], !.h = h,
                       !.err = "nil", !.nrec = m.nrec + 1])))

\* ARCReader.NextPayload()
ARCNextPayload(m) ==
    With(ARCNext(m), LAMBDA n :
    With(peek(n.r, 5), LAMBDA pk :
    With(storeLines(n.r, 0, TRUE), LAMBDA st :
    LET at == IF n.r.slicer THEN n.r.idx ELSE 0
    IN  IF n.err # "nil" THEN [n EXCEPT !.out = "nil"]
        ELSE IF pk.err = "panic" THEN [n EXCEPT !.r.status = "panic", !.out = "panic"]
        ELSE IF pk.err = "nil" /\ pk.b = B("HTTP/")
        THEN IF ~Alive(st.r) THEN [n EXCEPT !.r = st.r, !.out = "panic"]
             ELSE IF st.err # "nil"
             THEN [n EXCEPT !.r = st.r, !.out = "rec", !.err = st.err, !.fold = "failed"]
             ELSE [n EXCEPT !.r = st.r, !.h.fields = st.b, !.h.at = at, !.out = "rec",
                            !.fold = "yes"]
        ELSE [n EXCEPT !.out = "rec"])))

\* ------------------------------------------------- merged continuation record

\* no merged record
NoCont ==
    [url |-> <<>>, ID |-> <<>>, date |-> <<>>, Type |-> <<>>, fields |-> <<>>, final |-> FALSE,
     idx |-> 0, start |-> 0, bufs |-> <<>>, buf |-> <<>>]

\* p[:l] after copy(p, src) into a fresh buffer p
Copied(src, l) == [k \in 1..l |-> IF k <= Len(src) THEN src[k] ELSE "0x00"]

\* continuation.Read(p) with len(p) = n; c.buf[c.idx:l] with c.idx > l is an
\* out-of-range slice expression
contRead(c, n) ==
    LET cut == n > Len(c.buf) - c.idx
        l   == IF cut THEN Len(c.buf) - c.idx ELSE n
    IN  IF c.idx >= Len(c.buf) THEN [c |-> c, b |-> <<>>, err |-> "EOF"]
        ELSE IF c.idx > l THEN [c |-> c, b |-> <<>>, err |-> "panic"]
        ELSE [c |-> [c EXCEPT !.idx = c.idx + l], b |-> Copied(Sl(c.buf, c.idx, l), l),
              err |-> IF cut THEN "EOF" ELSE "nil"]

\* continuation.Slice(off, l)
contSlice(c, off, l) ==
    LET cut == l > Len(c.buf) - c.start - off
        l2  == IF cut THEN Len(c.buf) - c.start - off ELSE l
    IN  IF c.start + off >= Len(c.buf) THEN [b |-> <<>>, err |-> "EOF"]
        ELSE [b |-> Sl(c.buf, c.start + off, c.start + off + l2),
              err |-> IF cut THEN "EOF" ELSE "nil"]

\* continuation.EofSlice(off, l); c.buf[o:l] with o > l is an out-of-range
\* slice expression
contEofSlice(c, off, l) ==
    LET cut == l > Len(c.buf) - c.start - off
        l2  == IF cut THEN Len(c.buf) - c.start - off ELSE l
        o   == IF cut THEN 0 ELSE Len(c.buf) - c.start - off - l
    IN  IF off + c.start >= Len(c.buf) THEN [b |-> <<>>, err |-> "EOF"]
        ELSE IF o > l2 THEN [b |-> <<>>, err |-> "panic"]
        ELSE [b |-> Sl(c.buf, o, l2), err |-> IF cut THEN "EOF" ELSE "nil"]

\* ---------------------------------------------------------- the multi reader

\* the state of one MultiReader with its reader, parsers and the results of
\* the last call: kind is the parser in use ("warc", "arc", "nil": no reader),
\* err and out the last call's error and returned record, cur the record the
\* caller holds, got the bytes Read from it, b the bytes of the last Read or
\* Slice, fm the map of the last Fields call, puts the results of the calls of
\* continuations.put so far
blankMulti(r) ==
    [r |-> r, kind |-> "nil", hasw |-> FALSE, hasa |-> FALSE, w |-> blankWARCHeader, conts |-> EmptyMap, c |-> NoCont,
     arc |-> NoARC, h |-> NoURL, err |-> "nil", out |-> "nil", fold |-> "no",
     nrec |-> 0, cur |-> "nil", got |-> <<>>, b |-> <<>>, fm |-> EmptyMap, puts |-> <<>>]

\* a NewReader whose WARC probe reads the four bytes it looks at
NewReaderProbeReads(raw, able) ==
    With(newReader(raw, able), LAMBDA nr :
    With(readVersionBlock([nr.r EXCEPT !.idx = nr.r.idx + 4, !.pos = nr.r.pos + 4]), LAMBDA a :
    LET m == blankMulti(nr.r)
    IN  IF nr.err # "nil" THEN [m EXCEPT !.err = nr.err]
        ELSE IF warcReset(nr.r) = "nil"
        THEN [m EXCEPT !.kind = "warc", !.hasw = TRUE, !.r.idx = nr.r.idx + 4,
                       !.r.pos = nr.r.pos + 4]
        ELSE IF ~Alive(a.r) THEN [m EXCEPT !.r = a.r, !.err = "crash"]
        ELSE IF a.err # "nil" THEN [m EXCEPT !.r = a.r, !.err = "ErrNotWebarchive"]
        ELSE [m EXCEPT !.r = a.r, !.arc = a.arc, !.kind = "arc", !.hasa = TRUE]))

\* NewReader(r)
NewReader(raw, able) ==
    With(newReader(raw, able), LAMBDA nr :
    With(readVersionBlock(nr.r), LAMBDA a :
    LET m == blankMulti(nr.r)
    IN  IF nr.err # "nil" THEN [m EXCEPT !.err = nr.err]
        ELSE IF warcReset(nr.r) = "nil" THEN [m EXCEPT !.kind = "warc", !.hasw = TRUE]
        ELSE IF ~Alive(a.r) THEN [m EXCEPT !.r = a.r, !.err = "crash"]
        ELSE IF a.err # "nil" THEN [m EXCEPT !.r = a.r, !.err = "ErrNotWebarchive"]
        ELSE [m EXCEPT !.r = a.r, !.arc = a.arc, !.kind = "arc", !.hasa = TRUE]))

\* MultiReader.Reset(r), on a MultiReader that NewReader returned: m.w and
\* m.a are made on first use and kept, with what they hold, from then on
MultiReset(m0, raw, able) ==
    With(reset(m0.r, raw, able), LAMBDA rs :
    With(readVersionBlock(rs.r), LAMBDA a :
    LET m  == [m0 EXCEPT !.r = rs.r, !.out = "nil", !.fold = "no", !.b = <<>>, !.got = <<>>,
                         !.fm = EmptyMap, !.nrec = 0, !.w.at = -1, !.h.at = -1]
        mw == IF m.hasw THEN m
              ELSE [m EXCEPT !.hasw = TRUE, !.w = blankWARCHeader, !.conts = EmptyMap]
        ma == IF mw.hasa THEN [mw EXCEPT !.r = a.r, !.arc = a.arc]
              ELSE [mw EXCEPT !.hasa = TRUE, !.r = a.r, !.arc = a.arc, !.h = NoURL]
    IN  IF rs.err # "nil" THEN [m EXCEPT !.err = rs.err]
        ELSE IF warcReset(rs.r) = "nil" THEN [mw EXCEPT !.kind = "warc", !.err = "nil"]
        ELSE IF ~Alive(a.r) THEN [ma EXCEPT !.err = "crash"]
        ELSE IF a.err # "nil" THEN [ma EXCEPT !.err = "ErrNotWebarchive"]
        ELSE [ma EXCEPT !.kind = "arc", !.err = "nil"]))

\* Reader.Next() through the MultiReader
MultiNext(m0) ==
    With([m0 EXCEPT !.fold = "no", !.b = <<>>, !.fm = EmptyMap], LAMBDA m :
    With(IF m.kind = "warc" THEN WARCNext(m) ELSE ARCNext(m), LAMBDA n :
        IF n.err = "nil" THEN [n EXCEPT !.out = "rec", !.cur = "rec", !.got = <<>>]
        ELSE [n EXCEPT !.out = "nil"]))

\* Reader.NextPayload() through the MultiReader
MultiNextPayload(m0) ==
    With([m0 EXCEPT !.fold = "no", !.b = <<>>, !.fm = EmptyMap, !.err = "nil"], LAMBDA m :
    With(IF m.kind = "warc" THEN WARCNextPayload(m) ELSE ARCNextPayload(m), LAMBDA n :
        IF n.out \in {"rec", "cont"} THEN [n EXCEPT !.cur = n.out, !.got = <<>>]
        ELSE n))

\* Reader.Close() through the MultiReader
MultiClose(m) == With(Close(m.r), LAMBDA f : [m EXCEPT !.r = f.r, !.err = f.err])

\* Record.Read(p) with len(p) = n on the record the caller holds
RecordRead(m, n) ==
    With(Read(m.r, n), LAMBDA f :
    With(contRead(m.c, n), LAMBDA g :
        IF m.cur = "cont"
        THEN IF g.err = "panic" THEN [m EXCEPT !.r.status = "panic", !.err = "crash", !.b = <<>>]
             ELSE [m EXCEPT !.c = g.c, !.b = g.b, !.err = g.err, !.got = m.got \o g.b]
        ELSE IF ~Alive(f.r) THEN [m EXCEPT !.r = f.r, !.err = "crash", !.b = <<>>]
        ELSE [m EXCEPT !.r = f.r, !.b = f.b, !.err = f.err, !.got = m.got \o f.b]))

\* Record.Size() of the record the caller holds
RecordSize(m) ==
    IF m.cur = "cont" THEN 0
    ELSE IF m.kind = "warc" THEN m.w.size
    ELSE m.h.sz

\* Record.URL() of the record the caller holds
RecordURL(m) ==
    IF m.cur = "cont" THEN m.c.url
    ELSE IF m.kind = "warc" THEN m.w.url
    ELSE m.h.url

RECURSIVE readAllFrom(_, _)
\* the loop of ioutil.ReadAll over the record the caller holds: Read into 512
\* free bytes until an error; io.EOF is the end and no error
readAllFrom(m, acc) ==
    With(RecordRead(m, 512), LAMBDA f :
        IF f.err = "crash" THEN f
        ELSE IF f.err = "EOF" THEN [f EXCEPT !.b = acc \o f.b, !.err = "nil"]
        ELSE IF f.err # "nil" THEN [f EXCEPT !.b = acc \o f.b]
        ELSE readAllFrom(f, acc \o f.b))

\* ioutil.ReadAll(record)
RecordReadAll(m) == readAllFrom(m, <<>>)

\* Record.Slice(off, l) on the record the caller holds
RecordSlice(m, off, l) ==
    LET f == Slice(m.r, off, l)
        g == contSlice(m.c, off, l)
    IN  IF m.cur = "cont" THEN [m EXCEPT !.b = g.b, !.err = g.err]
        ELSE IF ~Alive(f.r) THEN [m EXCEPT !.r = f.r, !.err = "crash", !.b = <<>>]
        ELSE [m EXCEPT !.b = f.b, !.err = f.err]

\* Record.EofSlice(off, l) on the record the caller holds
RecordEofSlice(m, off, l) ==
    LET f == EofSlice(m.r, off, l)
        g == contEofSlice(m.c, off, l)
    IN  IF m.cur = "cont"
        THEN IF g.err = "panic" THEN [m EXCEPT !.r.status = "panic", !.err = "crash", !.b = <<>>]
             ELSE [m EXCEPT !.b = g.b, !.err = g.err]
        ELSE IF ~Alive(f.r) THEN [m EXCEPT !.r = f.r, !.err = "crash", !.b = <<>>]
        ELSE [m EXCEPT !.b = f.b, !.err = f.err]

RECURSIVE FormatNat(_)
\* the decimal digits of n >= 0
FormatNat(n) ==
    IF n < 10 THEN << Digits[n + 1] >> ELSE FormatNat(n \div 10) \o << Digits[(n % 10) + 1] >>

\* strconv.FormatInt(n, 10)
FormatInt(n) == IF n < 0 THEN << "-" >> \o FormatNat(0 - n) ELSE FormatNat(n)

\* m with the values vs put under the keys ks, as fields[k] = []string{v} does
SetKeys(m, ks, vs) ==
    [k \in DOMAIN m \cup {ks[i] : i \in 1..Len(ks)} |->
        IF \E i \in 1..Len(ks) : ks[i] = k
        THEN << vs[CHOOSE i \in 1..Len(ks) : ks[i] = k /\ \A j \in (i + 1)..Len(ks) : ks[j] # k] >>
        ELSE m[k]]

\* URL1.Fields(): the map, and the field block as getLines leaves it
URL1Fields(h) ==
    With(IF Len(h.fields) > 0 THEN getAllValues(h.fields) ELSE [m |-> EmptyMap, buf |-> h.fields],
         LAMBDA g :
        [map |-> SetKeys(g.m, << B("URL"), B("IP"), B("Date"), B("MIME"), B("Size") >>,
                         << h.url, h.IP, h.date, h.MIME, FormatInt(h.sz) >>),
         buf |-> g.buf])

\* URL2.Fields()
URL2Fields(h) ==
    With(URL1Fields(h), LAMBDA f :
        [map |-> SetKeys(f.map, << B("StatusCode"), B("Checksum"), B("Location"), B("Offset"),
                                   B("Filename") >>,
                         << FormatInt(h.StatusCode), h.Checksum, h.Location,
                            FormatInt(h.Offset), h.Location >>),
         buf |-> f.buf])

\* Record.Fields() on the record the caller holds; a merged record's field
\* block is the head of its buf
RecordFields(m) ==
    With(warcFields(m), LAMBDA w :
    With(getAllValues(m.c.fields), LAMBDA c :
    With(IF m.h.v2 THEN URL2Fields(m.h) ELSE URL1Fields(m.h), LAMBDA a :
        IF m.cur = "cont"
        THEN [m EXCEPT !.fm = c.m, !.c.fields = c.buf,
                       !.c.buf = c.buf \o From(m.c.buf, Len(c.buf))]
        ELSE IF m.kind = "warc" THEN [w.m EXCEPT !.fm = w.map]
        ELSE [m EXCEPT !.fm = a.map, !.h.fields = a.buf,
                       !.r = aliasFields(m.r, m.h.at, a.buf)])))

\* ------------------------------------------------------------- containers

CRLF == B("\r\n")

\* a named-field line of a WARC header block
Line(k, v) == k \o B(": ") \o v \o CRLF

GoodDate == B("2015-07-08T21:55:13Z")

\* what the model knows of a record it wrote into a container: its type (MIME
\* type in an ARC), URL, declared length as written, block, segment number
\* and further header lines
Rec(ty, url, cl, body, seg, extra) ==
    [ty |-> ty, url |-> url, cl |-> cl, body |-> body, seg |-> seg, extra |-> extra]

\* the bytes of a WARC record
WARCBytes(d) ==
    B("WARC/1.0") \o CRLF \o Line(KType, d.ty) \o Line(KDate, GoodDate) \o d.extra
        \o Line(KContentLength, d.cl) \o CRLF \o d.body \o CRLF \o CRLF

\* the bytes of an ARC version-1 URL record
ARCBytes(d) ==
    d.url \o B(" 0.0.0.0 20080430204825 ") \o d.ty \o B(" ") \o d.cl \o B("\n")
        \o d.body \o B("\n")

\* the bytes of an ARC version-2 URL record
ARC2Bytes(d) ==
    d.url \o B(" 0.0.0.0 20080430204825 ") \o d.ty \o B(" 200 sum loc 0 f.arc ") \o d.cl
        \o B("\n") \o d.body \o B("\n")

RECURSIVE Render(_, _)
\* the records one after the other
Render(recs, fmt) ==
    IF Len(recs) = 0 THEN <<>>
    ELSE (IF fmt = "warc" THEN WARCBytes(recs[1])
          ELSE IF fmt = "arc" THEN ARCBytes(recs[1])
          ELSE ARC2Bytes(recs[1])) \o Render(Tail(recs), fmt)

\* an ARC version block: the file description line, which declares the length
\* len of the rest of the block, the version line and the names line
VersionBlock(len, version) ==
    B("filedesc://x.arc 0.0.0.0 20080430204825 text/plain ") \o len \o B("\n")
        \o version \o B(" 0 InternetArchive\n")
        \o B("URL IP-address Archive-date Content-type Archive-length\n\n")

HTTPBody == B("HTTP/1.1 200\r\nA: b\r\n\r\nhi")

RInfo == Rec(B("warcinfo"), <<>>, B("10"), B("0123456789"), 0, <<>>)

RResponse == Rec(B("response"), B("u1"), B("24"), HTTPBody, 0, Line(KTargetURI, B("u1")))

RResource == Rec(B("resource"), B("u2"), B("3"), B("abc"), 0, Line(KTargetURI, B("u2")))

RMetadata == Rec(B("metadata"), <<>>, B("4"), B("meta"), 0, <<>>)

REmpty == Rec(B("conversion"), <<>>, B("0"), <<>>, 0, <<>>)

\* segment n of the record with ID i1: its own ID, the origin ID from segment
\* 2 on, and the total length on the last one
Seg(n, ty, body, last) ==
    Rec(ty, B("u3"), FormatNat(Len(body)), body, n,
        Line(KTargetURI, B("u3")) \o Line(KRecordID, B("i") \o FormatNat(n))
            \o Line(KSegmentNumber, FormatNat(n))
            \o (IF n > 1 THEN Line(KSegmentOriginID, B("i1")) ELSE <<>>)
            \o (IF last THEN Line(KSegmentTotalLength, B("12")) ELSE <<>>))

\* segment n of the record with ID urn:s, an identifier that holds a colon
UrnSeg(n, body, last) ==
    Rec(IF n = 1 THEN B("resource") ELSE B("continuation"), B("u4"), FormatNat(Len(body)),
        body, n,
        Line(KTargetURI, B("u4"))
            \o Line(KRecordID, IF n = 1 THEN B("urn:s") ELSE B("urn:s") \o FormatNat(n))
            \o Line(KSegmentNumber, FormatNat(n))
            \o (IF n > 1 THEN Line(KSegmentOriginID, B("urn:s")) ELSE <<>>)
            \o (IF last THEN Line(KSegmentTotalLength, B("4")) ELSE <<>>))

USeg1 == UrnSeg(1, B("ab"), FALSE)

ULast2 == UrnSeg(2, B("gh"), TRUE)

\* three segments whose payloads together start with a transport header
RSeg1 == Seg(1, B("response"), B("HTTP"), FALSE)

RSeg2 == Seg(2, B("continuation"), B("/1.1\n\n"), FALSE)

RSeg3 == Seg(3, B("continuation"), B("xy"), TRUE)

\* two segments whose payloads together are the five bytes "HTTP/"
HSeg1 == Seg(1, B("response"), B("HT"), FALSE)

HLast2 == Seg(2, B("continuation"), B("TP/"), TRUE)

\* segments without a transport header: a set of three and a set of two
PSeg1 == Seg(1, B("resource"), B("ab"), FALSE)

PSeg2 == Seg(2, B("continuation"), B("cd"), FALSE)

PSeg3 == Seg(3, B("continuation"), B("ef"), TRUE)

PLast2 == Seg(2, B("continuation"), B("gh"), TRUE)

\* segment 1 once more, with another payload
PAgain1 == Seg(1, B("resource"), B("xy"), FALSE)

\* a record whose segment number is below 1
RNegSeg ==
    Rec(B("resource"), B("u5"), B("2"), B("ng"), -1,
        Line(KTargetURI, B("u5")) \o Line(KSegmentNumber, B("-1")))

RNegative == Rec(B("resource"), <<>>, B("-6"), B("abc"), 0, <<>>)

\* a record that is not a payload record and whose declared length is minus
\* the 87 bytes of its version line and header block
RLoop == Rec(B("metadata"), <<>>, B("-87"), B("abc"), 0, <<>>)

\* a record with a block of 16 bytes
RLong == Rec(B("resource"), B("u6"), B("16"), B("0123456789abcdef"), 0, Line(KTargetURI, B("u6")))

ROverrun == Rec(B("response"), <<>>, B("9"), B("HTTP/1.1 "), 0, <<>>)

AHttp == Rec(B("text/html"), B("http://a"), B("24"), HTTPBody, 0, <<>>)

APlain == Rec(B("text/plain"), B("http://b"), B("5"), B("hello"), 0, <<>>)

\* a container: the parser it is for, how its records are written, the
\* records written into it and its bytes
Container(fmt, enc, recs, bytes) == [fmt |-> fmt, enc |-> enc, recs |-> recs, bytes |-> bytes]

WARCContainer(recs) == Container("warc", "warc", recs, Render(recs, "warc"))

ARCContainer(recs) ==
    Container("arc", "arc", recs, VersionBlock(B("76"), B("1")) \o Render(recs, "arc"))

ARC2Container(recs) ==
    Container("arc", "arc2", recs, VersionBlock(B("76"), B("2")) \o Render(recs, "arc2"))

\* a WARC record without a block, with the given named fields after
\* WARC-Type
BadRec(lines) ==
    B("WARC/1.0") \o CRLF \o Line(KType, B("resource")) \o lines \o CRLF \o CRLF \o CRLF

\* a WARC container that begins with the given records, followed by a
\* well-formed one
BadWARC(bad) ==
    Container("warc", "warc", << RResource >>, bad \o Render(<< RResource >>, "warc"))

\* an ARC container of the given version whose URL records begin with the
\* given lines, followed by a record that suits the version
BadARC(version, lines) ==
    Container("arc", IF version = B("1") THEN "arc" ELSE "arc2", << APlain >>,
              VersionBlock(B("76"), version) \o lines
                  \o Render(<< APlain >>, IF version = B("1") THEN "arc" ELSE "arc2"))

\* a WARC resource record whose header block holds a line of two characters
\* before its newline
ShortLineRec ==
    B("WARC/1.0") \o CRLF \o Line(KType, B("resource")) \o Line(KDate, GoodDate)
        \o B("ab\n") \o Line(KContentLength, B("3")) \o CRLF \o B("abc") \o CRLF \o CRLF

\* a WARC response record whose transport header holds a field folded over
\* two lines
FoldedRec ==
    WARCBytes(Rec(B("response"), B("u7"), B("24"), B("HTTP/1.1 200\nA: b\n c\n\nhi"), 0,
                  Line(KTargetURI, B("u7"))))

\* buf without its last n bytes
DropLast(buf, n) == SubSeq(buf, 1, Len(buf) - n)

Containers ==
    << WARCContainer(<< RInfo >>),
       WARCContainer(<< RResponse, RMetadata, RResource >>),
       WARCContainer(<< REmpty, RInfo >>),
       WARCContainer(<< PSeg1, PSeg2, PSeg3 >>),
       WARCContainer(<< RSeg3, RSeg2, RSeg1, RResource >>),
       WARCContainer(<< PSeg3, PSeg1, PSeg2 >>),
       WARCContainer(<< RNegative, RResource >>),
       WARCContainer(<< ROverrun, RResource >>),
       Container("warc", "warc", << RResource, RInfo >>,
                 DropLast(Render(<< RResource, RInfo >>, "warc"), 8)),
       ARCContainer(<< AHttp, APlain >>),
       ARC2Container(<< APlain, AHttp >>),
       Container("arc", "arc", << APlain >>,
                 VersionBlock(B("5"), B("1")) \o Render(<< APlain >>, "arc")),
       Container("arc", "arc", << APlain >>,
                 VersionBlock(B("999"), B("1")) \o Render(<< APlain >>, "arc")),
       Container("none", "none", <<>>, B("hello world\n")),
       Container("none", "none", <<>>,
                 B("filedesc://x.arc 0.0.0.0 notadate text/plain 76\n1 0 IA\n")),
       Container("warc", "warc", << RInfo >>, GzHeader \o Render(<< RInfo >>, "warc")),
       Container("none", "none", <<>>, GzMagic \o B("junk")),
       WARCContainer(<< PSeg1, PLast2 >>),
       WARCContainer(<< PLast2, PSeg1 >>),
       WARCContainer(<< PSeg3, PSeg2, PSeg1 >>),
       WARCContainer(<< RMetadata, RNegSeg >>),
       WARCContainer(<< PLast2 >>),
       WARCContainer(<< PSeg1 >>),
       BadWARC(BadRec(Line(KContentLength, B("0")))
                   \o BadRec(Line(KDate, B("yesterday")) \o Line(KContentLength, B("0")))),
       BadWARC(BadRec(Line(KDate, GoodDate))
                   \o BadRec(Line(KDate, GoodDate) \o Line(KContentLength, B("ten")))),
       BadWARC(BadRec(Line(KDate, GoodDate) \o Line(KContentLength, B("0"))
                          \o Line(KSegmentNumber, B("one")))),
       BadARC(B("1"), B("http://c 0.0.0.0 20080430204825 4\n")
                          \o B("http://c 0.0.0.0 notadate text/plain 5\n")),
       BadARC(B("1"), B("http://c 0.0.0.0 20080430204825 text/plain 5x\n")
                          \o B("http://d 0.0.0.0 20080430204825 text/plain more 2\nhi\n")),
       BadARC(B("3"), B("http://c 0.0.0.0 20080430204825 text/plain 5\n")
                          \o B("http://c 0.0.0.0 20080430204825 text/plain 2x0 sum loc 0 f.arc 5\n")),
       BadARC(B("2"), B("http://c 0.0.0.0 20080430204825 text/plain 200 sum loc 0x f.arc 5\n")
                          \o B("http://c 0.0.0.0 20080430204825 text/plain 200 sum loc 0 f.arc more 5\n")),
       BadWARC(ShortLineRec),
       WARCContainer(<< ULast2, USeg1 >>),
       WARCContainer(<< PSeg3, RResource, PSeg1, PSeg2 >>),
       WARCContainer(<< HLast2, HSeg1 >>),
       WARCContainer(<< PSeg3, PSeg1, PAgain1, RResource, PSeg2 >>),
       Container("warc", "warc", << RResponse >>, DropLast(Render(<< RResponse >>, "warc"), 11)),
       Container("arc", "arc", << AHttp >>,
                 DropLast(VersionBlock(B("76"), B("1")) \o Render(<< AHttp >>, "arc"), 8)),
       Container("none", "none", <<>>, B("\n") \o Render(<< RResource >>, "warc")),
       WARCContainer(<< RLoop >>),
       Container("warc", "warc", << RLong, RResource >>,
                 Render(<< RLong >>, "warc")
                     \o BadRec(Line(KDate, B("yesterday")) \o Line(KContentLength, B("0")))
                     \o Render(<< RResource >>, "warc")),
       BadWARC(FoldedRec) >>

\* the record is written as the format asks: the declared length is the
\* length of the block
WellFormedRec(d) == ParseInt(d.cl).ok /\ ParseInt(d.cl).v = Len(d.body) /\ d.seg >= 0

\* the container holds well-formed records and nothing else
WellFormed(c) ==
    /\ c.fmt \in {"warc", "arc"}
    /\ \A i \in 1..Len(c.recs) : WellFormedRec(c.recs[i])
    /\ \/ c.bytes = Render(c.recs, "warc")
       \/ c.bytes = GzHeader \o Render(c.recs, "warc")
       \/ c.bytes = VersionBlock(B("76"), B("1")) \o Render(c.recs, "arc")
       \/ c.bytes = VersionBlock(B("76"), B("2")) \o Render(c.recs, "arc2")
    /\ c.recs # <<>>

\* -------------------------------------------------------------- the callers

\* the two kinds of source: a plain io.Reader and one that is a slicer
Modes == {"stream", "slice"}

\* calls of Next and NextPayload allowed after one has returned an error
MaxFails == 2

\* calls of Next and NextPayload on one source
MaxCalls == 8

\* Reset calls in one behaviour
MaxResets == 1

\* the offsets handed to Slice and EofSlice
SliceOffs == {0, 1}

\* len(p) of the buffers handed to Read
ReadSizes == {4, 16}

\* the lengths handed to Slice and EofSlice
SliceLens == {2, 40}

\* the containers Reset is called with
ResetTargets == {1, 10, 14, 23, 38}

VARIABLES rd, cix, op, calls, hist, strict, fails, resets

\* a header key under test: the spelling it started from with its canonical
\* form, the spelling it has now, and what normalising gave
VARIABLES seed, key, norm

vars == << rd, cix, op, calls, hist, strict, fails, resets, seed, key, norm >>

\* the variables of the readers and their callers
callvars == << rd, cix, op, calls, hist, strict, fails, resets >>

\* the variables of the key under test
keyvars == << seed, key, norm >>

\* nothing normalised yet
NoNorm == [set |-> FALSE, canon |-> <<>>, again |-> <<>>, val |-> <<>>]

\* the call just made
Op(name, n, off, l) == [name |-> name, n |-> n, off |-> off, l |-> l]

\* a call on the reader NewReader returned: none without a reader, and none
\* that returns once the process has crashed
Call(m, res) ==
    IF m.kind = "nil" THEN m
    ELSE IF ~Alive(m.r) THEN [m EXCEPT !.err = "crash", !.out = "nil", !.b = <<>>, !.fm = EmptyMap]
    ELSE res

\* the results of the call before are gone when the next call is made
Fresh(m) == [m EXCEPT !.b = <<>>, !.fm = EmptyMap]

\* the two readers after the same call on each
Both(F(_)) == [stream |-> F("stream"), slice |-> F("slice")]

\* some reader is there to call
Usable == \E k \in Modes : rd[k].kind # "nil" /\ Alive(rd[k].r)

\* some caller holds a record
Holding == \E k \in Modes : rd[k].kind # "nil" /\ Alive(rd[k].r) /\ rd[k].cur # "nil"

Failed(ms) == \E k \in Modes : ms[k].err # "nil"

Init ==
    /\ cix \in 1..Len(Containers)
    /\ rd = Both(LAMBDA k : NewReader(Containers[cix].bytes, k = "slice"))
    /\ op = Op("open", 0, 0, 0)
    /\ calls = 0
    /\ hist = {}
    /\ strict = TRUE
    /\ fails = 0
    /\ resets = 0
    /\ seed = [key |-> <<>>, canon |-> <<>>]
    /\ key = <<>>
    /\ norm = NoNorm

\* rdr.Next()
DoNext ==
    /\ Usable
    /\ fails < MaxFails
    /\ calls < MaxCalls
    /\ rd' = Both(LAMBDA k : Call(rd[k], MultiNext(Fresh(rd[k]))))
    /\ op' = Op("Next", 0, 0, 0)
    /\ calls' = calls + 1
    /\ hist' = hist \cup {"Next"}
    /\ strict' = (strict /\ op.name \in {"open", "ReadAll"})
    /\ fails' = IF Failed(rd') THEN fails + 1 ELSE fails
    /\ UNCHANGED << cix, resets >>
    /\ UNCHANGED keyvars

\* rdr.NextPayload()
DoNextPayload ==
    /\ Usable
    /\ fails < MaxFails
    /\ calls < MaxCalls
    /\ rd' = Both(LAMBDA k : Call(rd[k], MultiNextPayload(Fresh(rd[k]))))
    /\ op' = Op("NextPayload", 0, 0, 0)
    /\ calls' = calls + 1
    /\ hist' = hist \cup {"NextPayload"}
    /\ strict' = FALSE
    /\ fails' = IF Failed(rd') THEN fails + 1 ELSE fails
    /\ UNCHANGED << cix, resets >>
    /\ UNCHANGED keyvars

\* record.Read(p) with len(p) = n; the callers that read in pieces, slice and
\* ask for the fields are followed up to their first Reset
DoRead(n) ==
    /\ Holding
    /\ resets = 0
    /\ rd' = Both(LAMBDA k : IF rd[k].cur = "nil" THEN rd[k] ELSE Call(rd[k], RecordRead(Fresh(rd[k]), n)))
    /\ op' = Op("Read", n, 0, 0)
    /\ strict' = FALSE
    /\ UNCHANGED << cix, calls, hist, fails, resets >>
    /\ UNCHANGED keyvars

\* ioutil.ReadAll(record)
DoReadAll ==
    /\ Holding
    /\ rd' = Both(LAMBDA k : IF rd[k].cur = "nil" THEN rd[k] ELSE Call(rd[k], RecordReadAll(Fresh(rd[k]))))
    /\ op' = Op("ReadAll", 0, 0, 0)
    /\ strict' = (strict /\ op.name = "Next")
    /\ UNCHANGED << cix, calls, hist, fails, resets >>
    /\ UNCHANGED keyvars

\* record.Slice(off, l)
DoSlice(off, l) ==
    /\ Holding
    /\ resets = 0
    /\ rd' = Both(LAMBDA k : IF rd[k].cur = "nil" THEN rd[k] ELSE Call(rd[k], RecordSlice(Fresh(rd[k]), off, l)))
    /\ op' = Op("Slice", 0, off, l)
    /\ strict' = FALSE
    /\ UNCHANGED << cix, calls, hist, fails, resets >>
    /\ UNCHANGED keyvars

\* record.EofSlice(off, l)
DoEofSlice(off, l) ==
    /\ Holding
    /\ resets = 0
    /\ rd' = Both(LAMBDA k : IF rd[k].cur = "nil" THEN rd[k] ELSE Call(rd[k], RecordEofSlice(Fresh(rd[k]), off, l)))
    /\ op' = Op("EofSlice", 0, off, l)
    /\ strict' = FALSE
    /\ UNCHANGED << cix, calls, hist, fails, resets >>
    /\ UNCHANGED keyvars

\* record.Fields()
DoFields ==
    /\ Holding
    /\ resets = 0
    /\ rd' = Both(LAMBDA k : IF rd[k].cur = "nil" THEN rd[k] ELSE Call(rd[k], RecordFields(Fresh(rd[k]))))
    /\ op' = Op("Fields", 0, 0, 0)
    /\ strict' = FALSE
    /\ UNCHANGED << cix, calls, hist, fails, resets >>
    /\ UNCHANGED keyvars

\* rdr.Reset(s) with s a source over the bytes of container t
DoReset(t) ==
    /\ Usable
    /\ resets < MaxResets
    /\ rd' = Both(LAMBDA k : Call(rd[k], MultiReset(Fresh(rd[k]), Containers[t].bytes, k = "slice")))
    /\ cix' = t
    /\ op' = Op("Reset", 0, 0, 0)
    /\ calls' = 0
    /\ hist' = {}
    /\ strict' = FALSE
    /\ fails' = 0
    /\ resets' = resets + 1
    /\ UNCHANGED keyvars

\* rdr.Close(); op.n tells a first Close from one that follows a Close
DoClose ==
    /\ Usable
    /\ rd' = Both(LAMBDA k : Call(rd[k], MultiClose(Fresh(rd[k]))))
    /\ op' = Op("Close", IF op.name = "Close" THEN 2 ELSE 1, 0, 0)
    /\ strict' = FALSE
    /\ UNCHANGED << cix, calls, hist, fails, resets >>
    /\ UNCHANGED keyvars

Next ==
    \/ DoNext
    \/ DoNextPayload
    \/ \E n \in ReadSizes : DoRead(n)
    \/ DoReadAll
    \/ \E off \in SliceOffs, l \in SliceLens : DoSlice(off, l)
    \/ \E off \in SliceOffs, l \in SliceLens : DoEofSlice(off, l)
    \/ DoFields
    \/ DoClose
    \/ \E t \in ResetTargets : DoReset(t)

Spec == Init /\ [][Next]_vars

\* ------------------------------------------------------ the keys under test

\* letters of a key that may be spelled in the other case
MaxFlips == 2

\* header keys as a file may spell them, each with its canonical form: the
\* names Next asks getSelectValues for, names of WARCHeaders, and keys that
\* are not WARC fields
KeySeeds ==
    { [key |-> B("content-length"), canon |-> KContentLength],
      [key |-> B("CONTENT-LENGTH"), canon |-> KContentLength],
      [key |-> B("WARC-Target-URI"), canon |-> KTargetURI],
      [key |-> B("warc-target-uri"), canon |-> KTargetURI],
      [key |-> B("Warc-Record-Id"), canon |-> KRecordID],
      [key |-> B("WARC-IP-ADDRESS"), canon |-> B("WARC-IP-Address")],
      [key |-> B("x-a_b-9c"), canon |-> B("X-A_b-9c")],
      [key |-> B("ETag"), canon |-> B("Etag")] }

\* the letter c in the other case
SwapCase(c) == IF ToLowerCh(c) = c THEN ToUpperCh(c) ELSE ToLowerCh(c)

\* the places where the spelling differs from the one it started from
Flipped == {i \in 1..Len(key) : key[i] # seed.key[i]}

KeyInit ==
    /\ cix = 1
    /\ rd = Both(LAMBDA k : NewReader(Containers[cix].bytes, k = "slice"))
    /\ op = Op("open", 0, 0, 0)
    /\ calls = 0
    /\ hist = {}
    /\ strict = TRUE
    /\ fails = 0
    /\ resets = 0
    /\ seed \in KeySeeds
    /\ key = seed.key
    /\ norm = NoNorm

\* the file spells letter i of the key in the other case
FlipCase(i) ==
    /\ IsLetter(key[i])
    /\ i \notin Flipped
    /\ Cardinality(Flipped) < MaxFlips
    /\ key' = [key EXCEPT ![i] = SwapCase(key[i])]
    /\ norm' = NoNorm
    /\ UNCHANGED << seed, callvars >>

\* normaliseKey(key), normaliseKey of its result, and what getSelectValues
\* finds under the canonical name in a block with the line "key: v"
Normalise ==
    /\ ~norm.set
    /\ norm' = [set   |-> TRUE,
                canon |-> normaliseKey(key),
                again |-> normaliseKey(normaliseKey(key)),
                val   |-> getSelectValues(Line(key, B("v")), << seed.canon >>).vals[1]]
    /\ UNCHANGED << seed, key, callvars >>

KeyNext ==
    \/ \E i \in 1..Len(key) : FlipCase(i)
    \/ Normalise

KeySpec == KeyInit /\ [][KeyNext]_vars

\* ---------------------------------------------------------------- checked

\* the container the readers were opened or last reset on
Cur == Containers[cix]

\* the reader of mode k is there and its process runs
Live(k) == rd[k].kind # "nil" /\ Alive(rd[k].r)

\* the field block of the record the caller holds
FieldBlock(m) ==
    IF m.cur = "cont" THEN m.c.fields
    ELSE IF m.kind = "warc" THEN m.w.fields
    ELSE m.h.fields

\* the type of the record the caller holds: WARC-Type, or the MIME type of an
\* ARC record
RecordType(m) == IF m.kind = "warc" THEN m.w.Type ELSE m.h.MIME

\* what the caller in mode k has from the call just made: whether it went
\* well, and then the URL and field block of the record, and the bytes read
Seen(k) ==
    LET m  == rd[k]
        ok == Live(k) /\ m.err = "nil"
    IN  [ok      |-> ok,
         url     |-> IF ok THEN RecordURL(m) ELSE <<>>,
         fields  |-> IF ok /\ op.name = "Next" THEN FieldBlock(m) ELSE <<>>,
         payload |-> IF Live(k) THEN m.b ELSE <<>>]

\* C1: a streaming reader and a slicing reader over the same bytes, each
\* driven by Next() calls that are each followed by a full read, give at every
\* step the same error or success, the same URL, the same field block and the
\* same payload bytes
C1_ModesAgree ==
    (strict /\ op.name \in {"Next", "ReadAll"}) => Seen("stream") = Seen("slice")

\* C2: in every state of a reader, whatever the calls and the input,
\* 0 <= thisIdx <= sz
C2_CursorWithinSize ==
    \A k \in Modes :
        Live(k) => (0 <= rd[k].r.thisIdx /\ rd[k].r.thisIdx <= rd[k].r.sz)

\* the reader of mode k was opened on a well-formed container, its callers
\* have only called Next and every call gave a record: the record held is
\* record nrec of the container
OnRecord(k) ==
    /\ WellFormed(Cur)
    /\ resets = 0
    /\ hist = {"Next"}
    /\ Live(k)
    /\ rd[k].out = "rec"
    /\ rd[k].nrec = calls

\* C3: the Reads of a record that Next() returned on a well-formed container
\* give, whatever the buffer sizes, the Size() bytes of its payload in order
\* and nothing more: each Read gives the next bytes, as many as fit in the
\* buffer and are left, and a Read with none left gives no byte and io.EOF
C3_ReadsYieldPayload ==
    \A k \in Modes :
        OnRecord(k) =>
            LET m == rd[k]
                d == Cur.recs[m.nrec]
            IN  /\ RecordSize(m) = Len(d.body)
                /\ m.r.thisIdx <= Len(d.body)
                /\ m.got = SubSeq(d.body, 1, m.r.thisIdx)
                /\ op.name = "Read" =>
                       /\ Len(m.b) = Min(op.n, Len(d.body) - (m.r.thisIdx - Len(m.b)))
                       /\ (m.err = "EOF") = (m.b = <<>>)
                       /\ m.err \in {"nil", "EOF"}
                /\ op.name = "ReadAll" => (m.r.thisIdx = Len(d.body) /\ m.err = "nil")

\* a record of more than one buffer was read to its end in both modes, the
\* last Read gave io.EOF, and the container has a further record
C3_Witness ==
    /\ op.name = "Read"
    /\ op.n = 4
    /\ \A k \in Modes :
           /\ OnRecord(k)
           /\ rd[k].err = "EOF"
           /\ rd[k].got = Cur.recs[rd[k].nrec].body
           /\ Len(rd[k].got) > 4
           /\ rd[k].nrec < Len(Cur.recs)

\* C4: on a well-formed container of N records the first N Next() calls
\* return its records in order and call N+1 returns io.EOF, whatever the
\* caller read of each record in between
C4_NextWalksRecords ==
    \A k \in Modes :
        (WellFormed(Cur) /\ resets = 0 /\ hist = {"Next"} /\ op.name = "Next"
             /\ calls <= Len(Cur.recs) + 1) =>
            LET m == rd[k]
            IN  /\ Live(k)
                /\ IF calls <= Len(Cur.recs)
                   THEN /\ m.err = "nil"
                        /\ m.out = "rec"
                        /\ m.nrec = calls
                        /\ RecordURL(m) = Cur.recs[calls].url
                        /\ RecordType(m) = Cur.recs[calls].ty
                        /\ m.r.sz = Len(Cur.recs[calls].body)
                        /\ m.r.thisIdx = 0
                   ELSE m.err = "EOF" /\ m.out = "nil"

\* call N+1 on a container of N >= 2 records returned io.EOF in both modes
\* after calls other than a full read of each record
C4_Witness ==
    /\ WellFormed(Cur)
    /\ resets = 0
    /\ hist = {"Next"}
    /\ op.name = "Next"
    /\ Len(Cur.recs) >= 2
    /\ calls = Len(Cur.recs) + 1
    /\ ~strict
    /\ \A k \in Modes : Live(k) /\ rd[k].err = "EOF"

\* the types NextPayload hands out as they are
PayloadTypes == {B("resource"), B("conversion"), B("response")}

\* the continuation has its final segment and every one before it
MergedWhole(c) == c.final /\ Len(c.bufs) > 0 /\ \A i \in 1..Len(c.bufs) : c.bufs[i].has

\* NextPayload of the WARC parser has just returned a record in mode k
PayloadReturned(k) ==
    Live(k) /\ rd[k].kind = "warc" /\ op.name = "NextPayload" /\ rd[k].err = "nil"

\* C5 as stated: every record that WARC NextPayload() returns has segment
\* number 0 and type resource, conversion or response, or is a completed
\* merged continuation
C5_AsStated ==
    \A k \in Modes :
        PayloadReturned(k) =>
            \/ rd[k].out = "rec" /\ rd[k].w.segment = 0 /\ rd[k].w.Type \in PayloadTypes
            \/ rd[k].out = "cont" /\ MergedWhole(rd[k].c)

\* C5: every record that WARC NextPayload() returns has a segment number that
\* is not positive and type resource, conversion or response, or is a
\* completed merged continuation
C5_PayloadRecordsOnly ==
    \A k \in Modes :
        PayloadReturned(k) =>
            \/ rd[k].out = "rec" /\ rd[k].w.segment <= 0 /\ rd[k].w.Type \in PayloadTypes
            \/ rd[k].out = "cont" /\ MergedWhole(rd[k].c)

\* the first NextPayload() passed over a record and returned the second one
C5_Witness ==
    /\ op.name = "NextPayload"
    /\ calls = 1
    /\ \A k \in Modes : PayloadReturned(k) /\ rd[k].out = "rec" /\ rd[k].nrec = 2

\* the bytes of a well-formed container from the payload of record i on
FromPayload(c, i) ==
    c.recs[i].body \o (IF c.enc = "warc" THEN CRLF \o CRLF ELSE B("\n"))
        \o Render(SubSeq(c.recs, i + 1, Len(c.recs)), c.enc)

RECURSIVE blankEnd(_, _)
\* the offset just after the first empty line of buf, p being the start of a
\* line, or -1
blankEnd(buf, p) ==
    IF p >= Len(buf) THEN -1
    ELSE IF buf[p + 1] = "\n" THEN p + 1
    ELSE IF p + 2 <= Len(buf) /\ buf[p + 1] = "\r" /\ buf[p + 2] = "\n" THEN p + 2
    ELSE IF IndexFrom(buf, "\n", p) < 0 THEN -1
    ELSE blankEnd(buf, IndexFrom(buf, "\n", p) + 1)

\* NextPayload, the only call made to advance, has returned in mode k a WARC
\* response record or an ARC record whose payload begins with "HTTP/" and
\* is followed by a blank-line terminator
Folded(k) ==
    /\ WellFormed(Cur)
    /\ resets = 0
    /\ hist = {"NextPayload"}
    /\ Live(k)
    /\ rd[k].out = "rec"
    /\ rd[k].nrec \in 1..Len(Cur.recs)
    /\ (Cur.fmt = "arc" \/ Cur.recs[rd[k].nrec].ty = B("response"))
    /\ Cur.recs[rd[k].nrec].seg = 0
    /\ HasPrefix(Cur.recs[rd[k].nrec].body, B("HTTP/"))
    /\ blankEnd(FromPayload(Cur, rd[k].nrec), 0) > -1

WARCPairs(d) ==
    { << KType, d.ty >>, << KDate, GoodDate >>, << KContentLength, d.cl >> }
        \cup (IF d.url # <<>> THEN { << KTargetURI, d.url >> } ELSE {})

\* the named fields of the transport header in HTTPBody
HTTPPairs == { << B("A"), B("b") >> }

\* the map holds the value v under the key k
Holds(map, k, v) == k \in DOMAIN map /\ \E i \in 1..Len(map[k]) : map[k][i] = v

\* C7: after NextPayload() has stripped the HTTP header block of a WARC
\* response record, the map that Fields() returns holds the fields of the
\* WARC header block and those of the HTTP header block
C7_FieldsOfBothBlocks ==
    \A k \in Modes :
        (Folded(k) /\ rd[k].kind = "warc" /\ rd[k].fold = "yes" /\ op.name = "Fields"
             /\ Cur.recs[rd[k].nrec].body = HTTPBody) =>
            \A pr \in WARCPairs(Cur.recs[rd[k].nrec]) \cup HTTPPairs :
                Holds(rd[k].fm, pr[1], pr[2])

\* the number of segment records in c
SegCount(c) == Cardinality({i \in 1..Len(c.recs) : c.recs[i].seg >= 1})

\* c starts with the segments 1..N of one record, N >= 2, in some order
IsSegmentSet(c) ==
    /\ c.fmt = "warc"
    /\ c.bytes = Render(c.recs, "warc")
    /\ SegCount(c) >= 2
    /\ \A n \in 1..SegCount(c) : \E i \in 1..SegCount(c) : c.recs[i].seg = n

RECURSIVE InOrder(_, _)
\* payload(n) ++ ... ++ payload(N) of the segments of c
InOrder(c, n) ==
    IF n > SegCount(c) THEN <<>>
    ELSE c.recs[CHOOSE i \in 1..SegCount(c) : c.recs[i].seg = n].body \o InOrder(c, n + 1)

\* the body of the merged record c
MergedBody(c) == From(c.buf, c.start)

\* C8: segments 1..N of one origin ID, the last carrying
\* WARC-Segment-Total-Length, put in any order, give a merged record whose
\* body is payload(1) ++ ... ++ payload(N) (the payloads here hold no
\* transport header to fold)
C8_MergedInSegmentOrder ==
    \A k \in Modes :
        (IsSegmentSet(Cur) /\ ~HasPrefix(InOrder(Cur, 1), B("HTTP/")) /\ rd[k].kind = "warc"
             /\ op.name = "NextPayload" /\ calls = 1 /\ hist = {"NextPayload"}) =>
            /\ Live(k)
            /\ rd[k].out = "cont"
            /\ MergedBody(rd[k].c) = InOrder(Cur, 1)

\* C9: of the N puts of the segments 1..N of one origin ID, each before the
\* one that completes the set returns (nil, false), and the one that
\* completes it returns the merged record, once
C9_MergedExactlyOnce ==
    \A k \in Modes :
        (IsSegmentSet(Cur) /\ rd[k].kind = "warc" /\ hist \subseteq {"NextPayload"}) =>
            /\ Len(rd[k].puts) <= SegCount(Cur)
            /\ \A j \in 1..Len(rd[k].puts) :
                   rd[k].puts[j] = IF j = SegCount(Cur) THEN "cont" ELSE "none"
            /\ (op.name = "NextPayload" /\ calls = 1) => Len(rd[k].puts) = SegCount(Cur)

\* the bytes the parsers are given: the decompressed ones of a gzip source
Plain(raw) == IF HasPrefix(raw, GzMagic) THEN gunzip(raw).data ELSE raw

\* C10: NewReader returns a WARC reader when the first 4 (decompressed) bytes
\* are "WARC", else an ARC reader when the version block parses, else no
\* reader and ErrNotWebarchive; never ErrVersionBlock
C10_OpenDetectsFormat ==
    \A k \in Modes :
        op.name = "open" =>
            /\ rd[k].err # "ErrVersionBlock"
            /\ IF HasPrefix(Plain(Cur.bytes), B("WARC"))
               THEN Live(k) /\ rd[k].kind = "warc" /\ rd[k].err = "nil"
               ELSE IF Cur.fmt = "arc"
               THEN Live(k) /\ rd[k].kind = "arc" /\ rd[k].err = "nil"
               ELSE rd[k].kind = "nil" /\ rd[k].err = "ErrNotWebarchive"

\* C11: Close() can be called in any state and any number of times: it
\* returns nil and leaves the reader, its idx, thisIdx and sz, the parsers and
\* the record held as they are, on a gzip-backed reader as on any other, and
\* a Close that follows a Close does what the first did
C11_CloseChangesNothing ==
    [][op'.name = "Close" =>
          \A k \in Modes :
              Live(k) =>
                  /\ rd'[k] = [Fresh(rd[k]) EXCEPT !.err = "nil"]
                  /\ rd'[k].r.idx = rd[k].r.idx
                  /\ rd'[k].r.thisIdx = rd[k].r.thisIdx
                  /\ rd'[k].r.sz = rd[k].r.sz
                  /\ op.name = "Close" => rd'[k] = rd[k]]_vars

\* a gzip-backed reader was closed twice in a row in the middle of a record
C11_Witness ==
    /\ op.name = "Close"
    /\ op.n = 2
    /\ \A k \in Modes :
           /\ Live(k)
           /\ rd[k].r.closer
           /\ rd[k].cur = "rec"
           /\ rd[k].r.thisIdx > 0
           /\ rd[k].r.thisIdx < rd[k].r.sz

\* the source the reader of mode k was opened on has no Slice method, or
\* has one and begins with the gzip magic bytes
Streaming(k) == k = "stream" \/ HasPrefix(Cur.bytes, GzMagic)

C13_SizeIsReadable ==
    \A k \in Modes :
        (WellFormed(Cur) /\ resets = 0 /\ hist = {"NextPayload"} /\ Live(k)
             /\ rd[k].kind = "warc" /\ rd[k].cur # "nil" /\ op.name = "ReadAll"
             /\ rd[k].err = "nil") =>
            RecordSize(rd[k]) = Len(rd[k].got)

\* the bytes of c are those of its WARC records cut off inside the payload
\* of the last one
Truncated(c) ==
    LET whole == Render(c.recs, "warc")
        cut   == Len(whole) - Len(c.bytes)
    IN  /\ c.fmt = "warc"
        /\ c.recs # <<>>
        /\ \A i \in 1..Len(c.recs) : WellFormedRec(c.recs[i])
        /\ cut > Len(CRLF \o CRLF)
        /\ cut <= Len(CRLF \o CRLF) + Len(c.recs[Len(c.recs)].body)
        /\ c.bytes = Sl(whole, 0, Len(c.bytes))

\* C14: when the source ends inside the declared payload of a record, the
\* Next() after the one that returned that record reports an error that is
\* not io.EOF, in streaming and in addressable mode, and the process goes on
C14_TruncationIsAnError ==
    \A k \in Modes :
        (Truncated(Cur) /\ resets = 0 /\ hist = {"Next"} /\ op.name = "Next"
             /\ calls = Len(Cur.recs) + 1) =>
            /\ Live(k)
            /\ rd[k].out = "nil"
            /\ rd[k].err \notin {"nil", "EOF", "crash"}

\* what a caller can tell of the reader and of the call just made on it
Outcome(m) ==
    [alive   |-> Alive(m.r),
     kind    |-> m.kind,
     err     |-> m.err,
     out     |-> m.out,
     idx     |-> m.r.idx,
     thisIdx |-> m.r.thisIdx,
     sz      |-> m.r.sz,
     url     |-> IF m.out \in {"rec", "cont"} THEN RecordURL(m) ELSE <<>>,
     body    |-> IF m.out = "cont" THEN MergedBody(m.c) ELSE <<>>]

\* a reader of mode k newly opened on the container the readers are on
Opened(k) == NewReader(Cur.bytes, k = "slice")

\* C15: after Reset(newSource) has succeeded the reader is as one newly
\* opened on newSource, and the first Next() or NextPayload() after it gives
\* what it gives on a newly opened reader, whatever was done on the source
\* before
C15_ResetIsFresh ==
    \A k \in Modes :
        (resets > 0 /\ Live(k) /\ Opened(k).kind # "nil") =>
            /\ op.name = "Reset" => Outcome(rd[k]) = Outcome(Opened(k))
            /\ (op.name = "Next" /\ calls = 1 /\ hist = {"Next"}) =>
                   Outcome(rd[k]) = Outcome(MultiNext(Opened(k)))
            /\ (op.name = "NextPayload" /\ calls = 1 /\ hist = {"NextPayload"}) =>
                   Outcome(rd[k]) = Outcome(MultiNextPayload(Opened(k)))

\* C16: all spellings of a key that differ only in the case of letters
\* normalise to the same canonical key, so a lookup under the canonical name
\* finds the value whatever the spelling, and normalising a canonical key
\* gives it back
C16_KeysCaseInsensitive ==
    norm.set =>
        /\ norm.canon = seed.canon
        /\ norm.again = norm.canon
        /\ norm.val = B("v")

\* a WARC field name spelled with two letters in the other case was
\* normalised
C16_Witness ==
    /\ norm.set
    /\ seed.canon = KTargetURI
    /\ Cardinality(Flipped) = 2
    /\ key # seed.key
    /\ norm.val = B("v")

\* how far into the (decompressed) source the reader of mode k stands
Cursor(k) == IF rd[k].r.slicer THEN rd[k].r.idx ELSE rd[k].r.pos

\* line n of the bytes of c, with its newline
LineOf(c, n) ==
    IF n = 1 THEN Sl(c.bytes, 0, IndexByte(c.bytes, "\n") + 1)
    ELSE Sl(c.bytes, IndexByte(c.bytes, "\n") + 1,
            IndexFrom(c.bytes, "\n", IndexByte(c.bytes, "\n") + 1) + 1)

\* the space-separated tokens of line n of c
Tokens(c, n) == Split(TrimSpace(LineOf(c, n)), " ")

\* the version-block length that line 1 of c declares
DeclaredLength(c) == ParseInt(Tokens(c, 1)[Len(Tokens(c, 1))]).v

\* C17: opening an ARC source whose line 1 declares the version-block length
\* L leaves the cursor L bytes after the end of line 1, in both modes, with
\* FileDate from token 3 of line 1, Version from token 1 of line 2 and
\* OriginCode from the last token of line 2
C17_VersionBlockSkipped ==
    \A k \in Modes :
        (op.name = "open" /\ Cur.fmt = "arc") =>
            /\ Live(k)
            /\ rd[k].kind = "arc"
            /\ Cursor(k) = Len(LineOf(Cur, 1)) + DeclaredLength(Cur)
            /\ rd[k].arc.FileDate = Tokens(Cur, 1)[3]
            /\ rd[k].arc.Version = ParseInt(Tokens(Cur, 2)[1]).v
            /\ rd[k].arc.OriginCode = Tokens(Cur, 2)[Len(Tokens(Cur, 2))]

RECURSIVE TextLineFrom(_, _)
\* the first line from offset p of buf on that holds more than white space,
\* without its newline, or <<>> when there is none
TextLineFrom(buf, p) ==
    IF p >= Len(buf) \/ IndexFrom(buf, "\n", p) < 0 THEN <<>>
    ELSE IF TrimSpace(Sl(buf, p, IndexFrom(buf, "\n", p))) = <<>>
    THEN TextLineFrom(buf, IndexFrom(buf, "\n", p) + 1)
    ELSE Sl(buf, p, IndexFrom(buf, "\n", p))

\* the bytes the reader of mode k takes its lines from
Source(k) == IF rd[k].r.slicer THEN rd[k].r.raw ELSE rd[k].r.data

\* where the record after the one held begins for the reader of mode k
RecordEnd(k) ==
    IF rd[k].r.slicer THEN rd[k].r.idx + rd[k].r.sz
    ELSE rd[k].r.pos + Max(rd[k].r.sz - rd[k].r.thisIdx, 0)

\* the tokens of a URL record line are as the archive version asks: at least
\* 5 for version 1 and 10 otherwise, a date in token 3, a size in the last
\* token and, past version 1, a status code in token 5 and an offset in
\* token 8
GoodURLLine(p, version) ==
    /\ IF version = 1 THEN Len(p) >= 5 ELSE Len(p) = 10
    /\ IsARCTime(p[3])
    /\ ParseInt(p[Len(p)]).ok
    /\ version # 1 => (ParseInt(p[5]).ok /\ ParseInt(p[8]).ok)

\* C18: ARC Next() takes a URL record line of at least 5 tokens when the
\* archive version is 1 and of exactly 10 when it is 2 or higher; with the
\* token count wrong or the date, size, status code or offset unparseable it
\* returns ErrARCHeader and no record, and else it sets sz to the size token
\* and thisIdx to 0
C18_URLLineChecked ==
    [][op'.name = "Next" =>
          \A k \in Modes :
              (Live(k) /\ Alive(rd'[k].r) /\ rd[k].kind = "arc" /\ rd[k].arc.Version >= 1
                   /\ TextLineFrom(Source(k), RecordEnd(k)) # <<>>) =>
                  LET p == Split(TrimSpace(TextLineFrom(Source(k), RecordEnd(k))), " ")
                  IN  IF GoodURLLine(p, rd[k].arc.Version)
                      THEN /\ rd'[k].err = "nil"
                           /\ rd'[k].out = "rec"
                           /\ rd'[k].r.sz = ParseInt(p[Len(p)]).v
                           /\ rd'[k].r.thisIdx = 0
                           /\ rd'[k].h.url = p[1]
                      ELSE /\ rd'[k].err = "ErrARCHeader"
                           /\ rd'[k].out = "nil"]_vars

\* in an archive of version 1 a line with an unparseable size was turned
\* down and the line of six tokens after it gave a record, in both modes
C18_Witness ==
    /\ op.name = "Next"
    /\ calls = 2
    /\ fails = 1
    /\ \A k \in Modes :
           /\ Live(k)
           /\ rd[k].kind = "arc"
           /\ rd[k].arc.Version = 1
           /\ rd[k].err = "nil"
           /\ rd[k].h.url = B("http://d")
           /\ rd[k].r.sz = 2

RECURSIVE TextLineStart(_, _)
\* the offset of the first line from offset p of buf on that holds more than
\* white space, or -1
TextLineStart(buf, p) ==
    IF p < 0 \/ p >= Len(buf) \/ IndexFrom(buf, "\n", p) < 0 THEN -1
    ELSE IF TrimSpace(Sl(buf, p, IndexFrom(buf, "\n", p))) = <<>>
    THEN TextLineStart(buf, IndexFrom(buf, "\n", p) + 1)
    ELSE p

\* the header block of the record that begins at or after offset p of buf:
\* the lines after its first line, through the first empty line; <<>> when
\* there is no such block
HeaderBlockAt(buf, p) ==
    LET t == TextLineStart(buf, p)
        b == IF t < 0 THEN -1 ELSE IndexFrom(buf, "\n", t) + 1
        e == IF t < 0 THEN -1 ELSE blankEnd(buf, b)
    IN  IF e < 0 THEN <<>> ELSE Sl(buf, b, e)

\* the value of the field spelled name in a header block whose lines are not
\* folded: what follows "name:" on the last such line, trimmed; <<>> if none
FieldOf(block, name) ==
    LET lines == Split(block, "\n")
        at    == {i \in 1..Len(lines) : HasPrefix(lines[i], name \o B(":"))}
    IN  IF at = {} THEN <<>>
        ELSE TrimSpace(From(lines[CHOOSE i \in at : \A j \in at : j <= i], Len(name) + 1))

C19_Witness ==
    /\ op.name = "Next"
    /\ hist = {"Next"}
    /\ resets = 0
    /\ WellFormed(Cur)
    /\ calls \in 2..Len(Cur.recs)
    /\ Cur.recs[calls - 1].seg > 0
    /\ Cur.recs[calls].seg = 0
    /\ \A k \in Modes :
           /\ Live(k)
           /\ rd[k].err = "nil"
           /\ rd[k].nrec = calls
           /\ rd[k].w.segment = 0

\* the reader of mode k slices its source and holds a record of a well-formed
\* container, as Next() returned it or with its HTTP header stripped by
\* NextPayload()
Sliceable(k) == rd[k].r.slicer /\ rd[k].cur = "rec" /\ (OnRecord(k) \/ Folded(k))

\* the payload of that record: its block, less the HTTP header if stripped
\* (nothing is left of a block that ends before its header does)
Payload(k) ==
    LET d == Cur.recs[rd[k].nrec]
    IN  IF OnRecord(k) THEN d.body
        ELSE IF blankEnd(FromPayload(Cur, rd[k].nrec), 0) > Len(d.body) THEN <<>>
        ELSE Sl(d.body, blankEnd(FromPayload(Cur, rd[k].nrec), 0), Len(d.body))

\* C20: on an addressable reader Slice(off, l) returns the bytes
\* [off, min(off+l, sz)) of the payload of the current record and
\* EofSlice(off, l) the bytes [max(sz-off-l, 0), sz-off), both with
\* end-of-record when the window is cut short and with no bytes and
\* end-of-record when off >= sz, however many bytes were Read before
C20_SlicesWithinPayload ==
    \A k \in Modes :
        (Sliceable(k) /\ op.name \in {"Slice", "EofSlice"}) =>
            LET m  == rd[k]
                p  == Payload(k)
                sz == Len(p)
            IN  /\ Max(m.r.sz, 0) = sz
                /\ IF op.off >= sz THEN m.b = <<>> /\ m.err = "EOF"
                   ELSE /\ m.err = IF op.off + op.l > sz THEN "EOF" ELSE "nil"
                        /\ op.name = "Slice" => m.b = Sl(p, op.off, Min(op.off + op.l, sz))
                        /\ op.name = "EofSlice" =>
                               m.b = Sl(p, Max(sz - op.off - op.l, 0), sz - op.off)

\* EofSlice gave the two bytes before the last one of a record that had been
\* read in part
C20_Witness ==
    /\ op.name = "EofSlice"
    /\ op.off = 1
    /\ op.l = 2
    /\ Sliceable("slice")
    /\ rd["slice"].r.thisIdx > 0
    /\ rd["slice"].r.thisIdx < rd["slice"].r.sz
    /\ Len(Payload("slice")) > 4
    /\ rd["slice"].err = "nil"
    /\ Len(rd["slice"].b) = 2

\* C21: peek(n) consumes nothing: peeking again gives the same bytes, a WARC
\* reader stands at offset 0 with idx, thisIdx and sz at 0 after the magic
\* probe of the open, and when the probe fails the ARC version-block parser
\* reads the source from its first byte
C21_PeekConsumesNothing ==
    \A k \in Modes :
        (op.name = "open" /\ Live(k)) =>
            /\ rd[k].kind = "warc" =>
                   /\ Cursor(k) = 0
                   /\ rd[k].r.idx = 0 /\ rd[k].r.thisIdx = 0 /\ rd[k].r.sz = 0
                   /\ peek(rd[k].r, 4) = [b |-> B("WARC"), err |-> "nil"]
                   /\ peek(rd[k].r, 4) = [b |-> Sl(Source(k), 0, 4), err |-> "nil"]
            /\ rd[k].kind = "arc" =>
                   /\ rd[k].arc.Path = Tokens(Cur, 1)[1]
                   /\ rd[k].arc.Address = Tokens(Cur, 1)[2]
                   /\ rd[k].r.thisIdx = 0 /\ rd[k].r.sz = 0

\* the WARC probe failed on a source that the ARC parser then took from its
\* first byte, in both modes
C21_Witness ==
    /\ op.name = "open"
    /\ \A k \in Modes :
           /\ Live(k)
           /\ rd[k].kind = "arc"
           /\ peek(blankReader(Cur.bytes, k = "slice"), 4).b # B("WARC")
           /\ rd[k].arc.Path = B("filedesc://x.arc")

RECURSIVE ShortLineEnd(_, _)
\* the offset just after the first line of buf, from the line that begins at
\* offset p on, whose length with its newline is less than 3, or -1
ShortLineEnd(buf, p) ==
    IF p < 0 \/ p >= Len(buf) \/ IndexFrom(buf, "\n", p) < 0 THEN -1
    ELSE IF IndexFrom(buf, "\n", p) + 1 - p < 3 THEN IndexFrom(buf, "\n", p) + 1
    ELSE ShortLineEnd(buf, IndexFrom(buf, "\n", p) + 1)

\* C22: storeLines ends a header block at the first line whose length, its
\* terminator included, is less than 3 bytes and returns the block through
\* that line, and a streaming and an addressable reader end it at the same
\* line whatever the input, lines of one or two characters before the
\* newline included: the WARC Next() of either leaves the source just after
\* that line and holds the lines up to it as the field block
C22_SameTerminatingLine ==
    [][op'.name = "Next" =>
          \A k \in Modes :
              LET t == TextLineStart(Source(k), RecordEnd(k))
                  b == IF t < 0 THEN -1 ELSE IndexFrom(Source(k), "\n", t) + 1
                  e == ShortLineEnd(Source(k), b)
              IN  (Live(k) /\ Alive(rd'[k].r) /\ rd[k].kind = "warc" /\ e > -1) =>
                      /\ (IF rd'[k].r.slicer THEN rd'[k].r.idx ELSE rd'[k].r.pos) = e
                      /\ rd'[k].w.fields = Sl(Source(k), b, e)]_vars

\* the identifier a segment record is to be filed under: its own
\* WARC-Record-ID when it is segment 1, the value of its
\* WARC-Segment-Origin-ID otherwise
SegKey(d) ==
    IF d.seg > 1 THEN FieldOf(d.extra, KSegmentOriginID) ELSE FieldOf(d.extra, KRecordID)

\* C23: continuations.put files segment 1 under the record's own
\* WARC-Record-ID and every later segment under its WARC-Segment-Origin-ID,
\* identifiers that hold ':' included, so that the segments of one record
\* share one table entry: the keys of the table are the identifiers of the
\* segment records read so far, and an entry has the slots of the segments
\* that were filed under its key
C23_FiledUnderOriginID ==
    \A k \in Modes :
        (Live(k) /\ rd[k].kind = "warc" /\ resets = 0 /\ Cur.bytes = Render(Cur.recs, "warc")) =>
            \A x \in DOMAIN rd[k].conts :
                /\ \E i \in 1..Len(Cur.recs) : Cur.recs[i].seg >= 1 /\ SegKey(Cur.recs[i]) = x
                /\ \A n \in 1..Len(rd[k].conts[x].bufs) :
                       rd[k].conts[x].bufs[n].has =>
                           \E i \in 1..Len(Cur.recs) :
                               Cur.recs[i].seg = n /\ SegKey(Cur.recs[i]) = x

\* C24: when put receives a segment whose number is above the length of the
\* slot list of the entry of its key, the list is grown to that number, the
\* earlier slots are kept and the payload is stored in the slot of the
\* segment without an out-of-range failure: no put fails, and every segment
\* read so far whose entry is in the table has its slot filled there
C24_SlotListGrows ==
    \A k \in Modes :
        rd[k].kind = "warc" =>
            /\ \A j \in 1..Len(rd[k].puts) : rd[k].puts[j] # "panic"
            /\ (Live(k) /\ resets = 0 /\ Cur.bytes = Render(Cur.recs, "warc")
                     /\ hist = {"NextPayload"}) =>
                   \A i \in 1..Min(rd[k].nrec, Len(Cur.recs)) :
                       (Cur.recs[i].seg >= 1 /\ SegKey(Cur.recs[i]) \in DOMAIN rd[k].conts) =>
                           /\ Len(rd[k].conts[SegKey(Cur.recs[i])].bufs) >= Cur.recs[i].seg
                           /\ rd[k].conts[SegKey(Cur.recs[i])].bufs[Cur.recs[i].seg].has

\* C25: a continuation table entry is removed exactly when put returns its
\* merged record: the table never holds an entry that is complete, and an
\* entry leaves the table only in a NextPayload() that returns the merged
\* record made of it, so that an entry without its last segment or with a
\* gap stays over every later Next, NextPayload, Reset and other call
C25_RemovedWhenReturned ==
    [][\A k \in Modes :
           (Alive(rd[k].r) /\ Alive(rd'[k].r)) =>
               /\ \A x \in DOMAIN rd'[k].conts : ~MergedWhole(rd'[k].conts[x])
               /\ \A x \in DOMAIN rd[k].conts :
                      x \notin DOMAIN rd'[k].conts =>
                          /\ op'.name = "NextPayload"
                          /\ rd'[k].out = "cont"
                          /\ MergedWhole(rd'[k].c)
                          /\ rd'[k].c.ID = rd[k].conts[x].ID
                          /\ \A n \in 1..Len(rd[k].conts[x].bufs) :
                                 rd[k].conts[x].bufs[n].has =>
                                     rd'[k].c.bufs[n] = rd[k].conts[x].bufs[n]]_vars

\* the second NextPayload() completed, returned and removed an entry that
\* the first one had left in the table, in both modes
C25_Witness ==
    /\ op.name = "NextPayload"
    /\ calls = 2
    /\ Cur.recs = << PSeg3, RResource, PSeg1, PSeg2 >>
    /\ \A k \in Modes :
           /\ Live(k)
           /\ rd[k].out = "cont"
           /\ rd[k].puts = << "none", "none", "cont" >>
           /\ rd[k].c.ID = B("i3")
           /\ DOMAIN rd[k].conts = {}

\* the body of the merged record c as its segments give it: their payloads
\* in segment order, less the transport header that was folded
SegmentBody(c) ==
    From(Concat(c.bufs), c.start - (Len(c.buf) - Len(Concat(c.bufs))))

\* C26: the Reads of a merged continuation record give, whatever the buffer
\* sizes, the payloads of its segments in segment order (after any folded
\* transport header) and nothing more: each Read copies the next bytes, as
\* many as it reports, and none fails with an out-of-range access
C26_MergedReadsYieldBody ==
    [][op'.name \in {"Read", "ReadAll"} =>
          \A k \in Modes :
              (Live(k) /\ rd[k].cur = "cont") =>
                  LET body == SegmentBody(rd[k].c)
                  IN  /\ Alive(rd'[k].r)
                      /\ Len(rd'[k].got) <= Len(body)
                      /\ rd'[k].got = SubSeq(body, 1, Len(rd'[k].got))
                      /\ op'.name = "Read" =>
                             /\ Len(rd'[k].b) = Min(op'.n, Len(body) - Len(rd[k].got))
                             /\ rd'[k].got = rd[k].got \o rd'[k].b
                      /\ op'.name = "ReadAll" => rd'[k].got = body]_vars

\* C27: on a merged continuation record with body B, Slice(off, l) returns
\* B[off, min(off+l, |B|)) and EofSlice(off, l) returns the l bytes of B that
\* end off bytes before the end of B, clamped to the start of B, and so
\* neither returns bytes of the field block
C27_MergedSlicesWithinBody ==
    [][op'.name \in {"Slice", "EofSlice"} =>
          \A k \in Modes :
              (Live(k) /\ rd[k].cur = "cont") =>
                  LET body == SegmentBody(rd[k].c)
                      n    == Len(body)
                  IN  /\ Alive(rd'[k].r)
                      /\ op'.name = "Slice" =>
                             rd'[k].b = Sl(body, Min(op'.off, n), Min(op'.off + op'.l, n))
                      /\ op'.name = "EofSlice" =>
                             rd'[k].b = Sl(body, Max(n - op'.off - op'.l, 0), Max(n - op'.off, 0))]_vars

\* NextPayload() on a reader newly opened on a container that holds one
\* response record, not segmented, with the given block
NonSegmented(body, able) ==
    MultiNextPayload(NewReader(Render(<< Rec(B("response"), B("u3"), FormatNat(Len(body)), body,
                                             0, Line(KTargetURI, B("u3"))) >>, "warc"), able))

\* C28: when the body of a completed continuation begins with "HTTP/" and
\* holds a blank-line terminator, the body start and the end of the field
\* block of the merged record are both just after that terminator, and what
\* is taken off the body is what the fold takes off a response record that is
\* not segmented and holds the same bytes, a body of exactly 5 bytes or
\* without a terminator included
C28_MergedFoldAsResponse ==
    \A k \in Modes :
        (PayloadReturned(k) /\ rd[k].out = "cont" /\ HasPrefix(Concat(rd[k].c.bufs), B("HTTP/"))) =>
            LET c   == rd[k].c
                all == Concat(c.bufs)
                f0  == Len(c.buf) - Len(all)
                ns  == NonSegmented(all, k = "slice")
            IN  /\ blankEnd(all, 0) > -1 =>
                       /\ c.start = f0 + blankEnd(all, 0)
                       /\ c.fields = Sl(c.buf, 0, c.start)
                /\ Alive(ns.r)
                /\ ns.out = "rec"
                /\ c.start - f0 = Len(all) - ns.r.sz

\* the URL, record ID, date and type of a continuation
Identity(c) == << c.url, c.ID, c.date, c.Type >>

\* the field block of the WARC record d as it is written
WrittenFields(d) ==
    Line(KType, d.ty) \o Line(KDate, GoodDate) \o d.extra \o Line(KContentLength, d.cl) \o CRLF

\* the first record of container c that is a segment filed under the key of
\* record n
FirstSubmitted(c, n) ==
    c.recs[CHOOSE i \in 1..n :
               /\ c.recs[i].seg >= 1 /\ SegKey(c.recs[i]) = SegKey(c.recs[n])
               /\ \A j \in 1..(i - 1) :
                      ~(c.recs[j].seg >= 1 /\ SegKey(c.recs[j]) = SegKey(c.recs[n]))]

\* C29: the merged continuation record carries the URL, record ID, date,
\* type and field block of the first segment submitted for its key: no call,
\* a later submission for the key or a later Next() included, changes them in
\* an entry of the table, the merged record has them as the entry had them,
\* and they are those of the first segment of the key in the container
C29_IdentityOfFirstSegment ==
    [][\A k \in Modes :
           (Alive(rd[k].r) /\ Alive(rd'[k].r)) =>
               /\ \A x \in DOMAIN rd[k].conts \cap DOMAIN rd'[k].conts :
                      /\ Identity(rd'[k].conts[x]) = Identity(rd[k].conts[x])
                      /\ rd'[k].conts[x].fields = rd[k].conts[x].fields
               /\ \A x \in DOMAIN rd[k].conts \ DOMAIN rd'[k].conts :
                      rd'[k].out = "cont" =>
                          /\ Identity(rd'[k].c) = Identity(rd[k].conts[x])
                          /\ HasPrefix(rd'[k].c.buf, rd[k].conts[x].fields)
               /\ (op'.name = "NextPayload" /\ rd'[k].out = "cont" /\ resets = 0
                        /\ hist' = {"NextPayload"} /\ Cur.bytes = Render(Cur.recs, "warc")) =>
                      LET d == FirstSubmitted(Cur, rd'[k].nrec)
                      IN  /\ Identity(rd'[k].c)
                                 = << d.url, FieldOf(d.extra, KRecordID), GoodDate, d.ty >>
                          /\ HasPrefix(rd'[k].c.buf, WrittenFields(d))]_vars

\* an entry made by segment 2 has taken segment 1 as well and keeps the
\* identity of segment 2 now that the reader holds a later record of its
\* own, in both modes
C29_Witness ==
    /\ op.name = "NextPayload"
    /\ calls = 2
    /\ \A k \in Modes :
           /\ Live(k)
           /\ rd[k].out = "rec"
           /\ rd[k].w.url = B("u2")
           /\ B("i1") \in DOMAIN rd[k].conts
           /\ Identity(rd[k].conts[B("i1")]) = << B("u3"), B("i2"), GoodDate, B("continuation") >>
           /\ rd[k].conts[B("i1")].bufs[1].has
           /\ rd[k].conts[B("i1")].bufs[2].has

\* the records among the first upto of container c that are segment n filed
\* under key x
Submitted(c, upto, x, n) ==
    {i \in 1..Min(upto, Len(c.recs)) : c.recs[i].seg = n /\ SegKey(c.recs[i]) = x}

\* the payload of the last of them, <<>> when there is none
LatestBody(c, upto, x, n) ==
    IF Submitted(c, upto, x, n) = {} THEN <<>>
    ELSE c.recs[CHOOSE i \in Submitted(c, upto, x, n) :
                    \A j \in Submitted(c, upto, x, n) : j <= i].body

RECURSIVE LatestFrom(_, _, _, _, _)
\* the latest payloads of the segments n..last under key x, one after the
\* other
LatestFrom(c, upto, x, n, last) ==
    IF n > last THEN <<>>
    ELSE LatestBody(c, upto, x, n) \o LatestFrom(c, upto, x, n + 1, last)

\* some segment number was submitted more than once under key x
Resubmitted(c, upto, x) ==
    \E n \in 1..Len(c.recs) : Cardinality(Submitted(c, upto, x, n)) > 1

\* C30: when a segment number is submitted twice for one key before the set
\* is complete, the later payload takes the slot of the earlier one, the
\* other slots stay as they are, and the merged body is made of the later
\* payload only
C30_LaterPayloadReplaces ==
    \A k \in Modes :
        (Live(k) /\ rd[k].kind = "warc" /\ resets = 0 /\ hist = {"NextPayload"}
             /\ Cur.bytes = Render(Cur.recs, "warc")) =>
            /\ \A x \in DOMAIN rd[k].conts :
                   Resubmitted(Cur, rd[k].nrec, x) =>
                       \A n \in 1..Len(rd[k].conts[x].bufs) :
                           /\ rd[k].conts[x].bufs[n].has
                                  = (Submitted(Cur, rd[k].nrec, x, n) # {})
                           /\ rd[k].conts[x].bufs[n].b = LatestBody(Cur, rd[k].nrec, x, n)
            /\ (op.name = "NextPayload" /\ rd[k].out = "cont"
                     /\ Resubmitted(Cur, rd[k].nrec, SegKey(Cur.recs[rd[k].nrec]))) =>
                   /\ Concat(rd[k].c.bufs)
                          = LatestFrom(Cur, rd[k].nrec, SegKey(Cur.recs[rd[k].nrec]), 1,
                                       Len(rd[k].c.bufs))
                   /\ MergedBody(rd[k].c) = SegmentBody(rd[k].c)

\* segment 1 was submitted twice before segment 2 came, and the merged
\* record has the payload of the second submission, in both modes
C30_Witness ==
    /\ op.name = "NextPayload"
    /\ calls = 2
    /\ \A k \in Modes :
           /\ Live(k)
           /\ rd[k].out = "cont"
           /\ Resubmitted(Cur, rd[k].nrec, B("i1"))
           /\ MergedBody(rd[k].c) = B("xycdef")

\* C31: for every "Key: Value" line of the header block of a record,
\* Fields() holds under the canonical key the text after the first colon,
\* trimmed: for a record that WARC Next() returned the map holds the fields
\* written into its block, WARC-Target-URI holds URL(), WARC-Record-ID holds
\* the record ID and WARC-Date is there, values that hold ':' included
C31_FieldsOfEveryLine ==
    \A k \in Modes :
        (OnRecord(k) /\ rd[k].kind = "warc" /\ op.name = "Fields") =>
            LET d == Cur.recs[rd[k].nrec]
            IN  /\ \A pr \in WARCPairs(d) : Holds(rd[k].fm, pr[1], pr[2])
                /\ KDate \in DOMAIN rd[k].fm
                /\ RecordURL(rd[k]) # <<>> => Holds(rd[k].fm, KTargetURI, RecordURL(rd[k]))
                /\ rd[k].w.ID # <<>> => Holds(rd[k].fm, KRecordID, rd[k].w.ID)

\* C32: when the source ends inside the transport header block that
\* NextPayload() scans, the payload beginning with "HTTP/" and no blank-line
\* terminator following before the end of the source, NextPayload() returns
\* an error, for a WARC response record as for an ARC record, and not the
\* record as a success
C32_TruncatedHeaderIsAnError ==
    \A k \in Modes :
        (op.name = "NextPayload" /\ Live(k) /\ rd[k].fold = "failed") => rd[k].err # "nil"

\* C33: after Reset(s) has returned nil every following call is served by
\* the parser of the format of s, WARC when s starts with "WARC" and else
\* ARC, the format of the source before being another or not; Reset returns
\* ErrNotWebarchive when s is neither, and after a Reset that failed the
\* parser that was in use does not read records of s as if the Reset had
\* succeeded
C33_ResetPicksParser ==
    \A k \in Modes :
        (Live(k) /\ resets > 0) =>
            /\ Cur.fmt # "none" =>
                   /\ rd[k].kind = Cur.fmt
                   /\ op.name = "Reset" => rd[k].err = "nil"
            /\ Cur.fmt = "none" =>
                   /\ op.name = "Reset" => rd[k].err = "ErrNotWebarchive"
                   /\ op.name \in {"Next", "NextPayload"} => rd[k].err # "nil"

\* the offset just after line n of buf, or -1 when buf has fewer lines
LineEnd(buf, n) ==
    IF n = 0 THEN 0
    ELSE IF IndexFrom(buf, "\n", 0) < 0 THEN -1
    ELSE IF n = 1 THEN IndexFrom(buf, "\n", 0) + 1
    ELSE IF IndexFrom(buf, "\n", IndexFrom(buf, "\n", 0) + 1) < 0 THEN -1
    ELSE IndexFrom(buf, "\n", IndexFrom(buf, "\n", 0) + 1) + 1

\* C34: within one cycle of open or reset the reader only moves forward: the
\* offset idx of an addressable reader and the bytes consumed of a streaming
\* one never decrease across Next(), NextPayload(), Read and the parsing of
\* the version block, whatever the input, a negative Content-Length or size
\* and a version-block length smaller than its second line included
C34_OnlyForward ==
    [][\A k \in Modes :
           /\ (Live(k) /\ Alive(rd'[k].r)
                    /\ op'.name \in {"Next", "NextPayload", "Read", "ReadAll"}) =>
                  (IF rd'[k].r.slicer THEN rd'[k].r.idx ELSE rd'[k].r.pos) >= Cursor(k)
           /\ (Live(k) /\ op.name = "open" /\ rd[k].kind = "arc") =>
                  Cursor(k) >= LineEnd(Source(k), 2)]_vars

\* where the reader of m stands and what it has left of its record
Standing(m) == << m.r.idx, m.r.pos, m.r.thisIdx, m.r.sz >>

\* C35: on a finite source every call of Next() and NextPayload() returns and
\* a loop of Next() or NextPayload() calls ends with an error after finitely
\* many calls, in both modes: NextPayload() never comes back to a state its
\* loop was in before, and a Next() that returns a record right after a
\* Next() that returned one does not leave the reader standing where it
\* stood
C35_CallsReturnAndLoopsEnd ==
    [][\A k \in Modes :
           /\ rd'[k].r.status # "spin"
           /\ (Live(k) /\ Alive(rd'[k].r) /\ op.name = "Next" /\ op'.name = "Next"
                    /\ rd[k].err = "nil" /\ rd'[k].err = "nil") =>
                  Standing(rd'[k]) # Standing(rd[k])]_vars

\* C36: after Next() has returned an error for a record, a following Next()
\* can be made and does not skip the unread remainder of the record before
\* once more: it scans from where the failed call left the source, so that
\* the record it returns is the one whose header block comes next there
C36_RemainderSkippedOnce ==
    [][op'.name = "Next" =>
          \A k \in Modes :
              (Live(k) /\ Alive(rd'[k].r) /\ rd[k].kind = "warc" /\ op.name = "Next"
                   /\ rd[k].err \notin {"nil", "EOF"}
                   /\ HeaderBlockAt(Source(k), Cursor(k)) # <<>>) =>
                  rd'[k].w.fields = HeaderBlockAt(Source(k), Cursor(k))]_vars

\* C37: Fields() is a pure query: a second call on the record, with no
\* advance between the two, returns the map of the first, and a call changes
\* neither the field block of the record nor the bytes of an addressable
\* source, a header block with folded lines included
C37_FieldsIsPure ==
    [][op'.name = "Fields" =>
          \A k \in Modes :
              (Live(k) /\ Alive(rd'[k].r) /\ rd[k].cur # "nil") =>
                  /\ FieldBlock(rd'[k]) = FieldBlock(rd[k])
                  /\ rd'[k].r.raw = rd[k].r.raw
                  /\ op.name = "Fields" => rd'[k].fm = rd[k].fm]_vars

\* the ten tokens of the URL line that ARC2Bytes writes for d, each with the
\* key it is reported under
URL2Pairs(d) ==
    { << B("URL"), d.url >>, << B("IP"), B("0.0.0.0") >>, << B("Date"), B("20080430204825") >>,
      << B("MIME"), d.ty >>, << B("StatusCode"), B("200") >>, << B("Checksum"), B("sum") >>,
      << B("Location"), B("loc") >>, << B("Offset"), B("0") >>, << B("Filename"), B("f.arc") >>,
      << B("Size"), d.cl >> }

\* the caller holds record nrec of a version 2 ARC container and has just
\* called Fields()
FieldsOfURL2(k) ==
    /\ op.name = "Fields"
    /\ Live(k)
    /\ rd[k].kind = "arc"
    /\ rd[k].cur = "rec"
    /\ rd[k].h.v2
    /\ Cur.enc = "arc2"
    /\ rd[k].nrec \in 1..Len(Cur.recs)

\* C38: for an ARC version 2 record, Fields() reports each of the ten tokens
\* of the URL line under its own key; "Filename" is token 9 and "Location" is
\* token 7
C38_TokenUnderItsOwnKey ==
    \A k \in Modes :
        FieldsOfURL2(k) =>
            \A pr \in URL2Pairs(Cur.recs[rd[k].nrec]) : rd[k].fm[pr[1]] = << pr[2] >>
====
